---- MODULE Spec2Model ----
(***************************************************************************)
(* Surface-curve trimming pipeline of tesselate/multi_nurbs_intersectioning *)
(* (MultiBezierSurface, GlobalUVSpline, refine_intersection_analytic,       *)
(* clip_spline_by_geomdl_trim).                                             *)
(*                                                                          *)
(* Numbers.  The program computes in IEEE doubles.  The model computes in   *)
(* exact rationals <<n, d>> (d > 0, lowest terms); the coordinate <<0, 0>>  *)
(* stands for NaN.  A residual (a Euclidean norm) is carried as its square, *)
(* which keeps every order comparison the program makes on it.              *)
(***************************************************************************)
EXTENDS Integers, Sequences, FiniteSets, TLC

----------------------------------------------------------------------------
(* Bounds of the model *)

\* control grids have 2..MaxDim rows and columns
MaxDim == 5
\* patch sizes run over 2..MaxPatch
MaxPatch == 3
\* patches are evaluated at the local parameters k/EvalDen, k = 0..EvalDen
EvalDen == 2
\* n_spline_samples runs over 1..MaxSplineSamples
MaxSplineSamples == 4
\* n_trim_samples runs over 1..MaxTrimSamples
MaxTrimSamples == 8
\* sample_per_segment, the number of samples of an emitted segment
SamplePerSegment == 3
\* the number of parameters at which the script maps the whole curve to 3D
MapSamples == 4
\* the seed lists of SpecSeeds hold up to MaxSeeds refined seeds
MaxSeeds == 3
\* the polylines of SpecCurve have 1..MaxCtrl control points
MaxCtrl == 3
\* SpecCalls makes up to MaxCalls calls of clip_spline_by_geomdl_trim, with
\* n_spline_samples in 1..MaxCallSamples
MaxCalls == 3
MaxCallSamples == 2

VARIABLES
    ctrlgrid,          \* the control grid handed to MultiBezierSurface
    patch_size,        \* its patch_size argument
    multi_surf,        \* the MultiBezierSurface object, once constructed
    spline_uv,         \* GlobalUVSpline.uv_pts: the UV curve's control points
    trim_curve,        \* the trim object's control points
    n_spline_samples,  \* tunables of clip_spline_by_geomdl_trim
    n_trim_samples,
    refine_tol,
    pc,                \* position in the script / in the pipeline
    ts, spine,         \* sample parameters and samples of the UV curve
    ss, trim_pts,      \* sample parameters and samples of the trim curve
    seed_i, seed_j,    \* the loop indices i, j of the seed loop
    intersections,     \* the list `intersections`
    clustered,         \* the list `clustered`
    trim_variant,      \* what the caller passed as trim_curve: "object" or "raw"
    newton,            \* the refinement made for the last segment pair, if any
    calls,             \* the returns of clip_spline_by_geomdl_trim so far
    uv_eval,           \* the last direct curve evaluation (SpecCurve)
    t_vals,            \* the list `t_vals` of partition boundaries
    segments,          \* the list `segments`
    samp_pts3d,        \* the script's 3D samples of the whole curve
    patch_eval,        \* the last direct patch evaluation (SpecGrid)
    pip_eval,          \* the last direct point_in_polygon call (SpecPip)
    pair_eval,         \* the seed of the last segment pair tested (SpecPairs)
    deriv_eval,        \* the last direct derivative3D call (SpecDeriv)
    map_eval           \* the last direct evaluate3D call (SpecMap)

vars == <<ctrlgrid, patch_size, multi_surf, spline_uv, trim_curve,
          n_spline_samples, n_trim_samples, refine_tol, pc, ts, spine, ss,
          trim_pts, seed_i, seed_j, intersections, clustered, segments,
          samp_pts3d, patch_eval, trim_variant, newton, calls, uv_eval,
          t_vals, pip_eval, pair_eval, deriv_eval, map_eval>>

----------------------------------------------------------------------------
(* Exact rational arithmetic standing for the program's float arithmetic *)

Abs(x) == IF x < 0 THEN -x ELSE x

RECURSIVE GCD(_, _)
GCD(a, b) == IF b = 0 THEN a ELSE GCD(b, a % b)

\* the rational n/d in lowest terms with a positive denominator (d # 0)
Q(n, d) ==
    LET g == GCD(Abs(n), Abs(d))
        s == IF d < 0 THEN -1 ELSE 1
    IN  <<(s * n) \div g, (s * d) \div g>>

R(k) == <<k, 1>>
NaN == <<0, 0>>
IsNaN(a) == a[2] = 0

\* a + b and a - b over the least common denominator
RAdd(a, b) ==
    LET g == GCD(a[2], b[2])
    IN  Q(a[1] * (b[2] \div g) + b[1] * (a[2] \div g), (a[2] \div g) * b[2])
RNeg(a) == <<-a[1], a[2]>>
RSub(a, b) == RAdd(a, RNeg(b))
\* a * b, cancelling across before multiplying
RMul(a, b) ==
    LET g1 == GCD(Abs(a[1]), b[2])
        g2 == GCD(Abs(b[1]), a[2])
    IN  Q((a[1] \div g1) * (b[1] \div g2), (a[2] \div g2) * (b[2] \div g1))
\* a / b for b # 0
RDiv(a, b) == RMul(a, Q(b[2], b[1]))
RAbs(a) == <<Abs(a[1]), a[2]>>
RLt(a, b) == RSub(a, b)[1] < 0
RLe(a, b) == RSub(a, b)[1] <= 0
RMax(a, b) == IF RLt(a, b) THEN b ELSE a
RMin(a, b) == IF RLt(b, a) THEN b ELSE a
\* np.clip(x, lo, hi)
RClip(x, lo, hi) == RMin(RMax(x, lo), hi)
\* int(x): rounds toward zero
RTrunc(a) == IF a[1] < 0 THEN -((-a[1]) \div a[2]) ELSE a[1] \div a[2]

\* int(np.floor(x)): TLA+'s \div rounds toward minus infinity
RFloor(a) == a[1] \div a[2]

\* x ** k of Python: x ** 0 is 1, also for x = 0
RECURSIVE RPow(_, _)
RPow(x, k) == IF k = 0 THEN R(1) ELSE RMul(x, RPow(x, k - 1))

----------------------------------------------------------------------------
(* Bernstein basis and Bezier patch evaluation *)

RECURSIVE Factorial(_)
Factorial(n) == IF n <= 0 THEN 1 ELSE n * Factorial(n - 1)

\* math.comb(n, i)
comb(n, i) ==
    IF i < 0 \/ i > n THEN 0
    ELSE Factorial(n) \div (Factorial(i) * Factorial(n - i))

\* the basis with its two exponents exchanged
bernstein_poly_swapped(i, n, t) ==
    RMul(RMul(R(comb(n, i)), RPow(t, n - i)), RPow(RSub(R(1), t), i))

\* bernstein_poly(i, n, t) = comb(n, i) * t**i * (1 - t)**(n - i)
bernstein_poly(i, n, t) ==
    RMul(RMul(R(comb(n, i)), RPow(t, i)), RPow(RSub(R(1), t), n - i))

\* sum over k = lo..hi of f[k], f a function to rationals
RECURSIVE RSum(_, _, _)
RSum(f, lo, hi) == IF lo > hi THEN R(0) ELSE RAdd(f[lo], RSum(f, lo + 1, hi))

\* surface_eval(u, v) of make_bezier_surface(ctrlpts): ctrlpts is an
\* (m+1) x (n+1) array of 3D points, indexed from 0
surface_eval(ctrlpts, u, v) ==
    LET m == Cardinality(DOMAIN ctrlpts) - 1
        n == Cardinality(DOMAIN ctrlpts[0]) - 1
        B_u == [a \in 0..m |-> bernstein_poly(a, m, u)]
        B_v == [b \in 0..n |-> bernstein_poly(b, n, v)]
        inner == [a \in 0..m |-> [k \in 1..3 |->
                    RSum([b \in 0..n |-> RMul(B_v[b], ctrlpts[a][b][k])], 0, n)]]
    IN  [k \in 1..3 |-> RSum([a \in 0..m |-> RMul(B_u[a], inner[a][k])], 0, m)]

----------------------------------------------------------------------------
(* The control grid and the patch grid *)

\* the script's grid: ctrlgrid[i, j] = (i, j, z).  kind 0 is the flat grid
\* (z = 0); kind 1 is a bump, 0.25 * i(nx-1-i) * ((ny-1) - 2j), vanishing on
\* the rows i = 0 and i = nx-1 as the script's 0.25 * sin * cos does
ControlGrid(nx, ny, kind) ==
    [i \in 0..(nx - 1) |-> [j \in 0..(ny - 1) |->
        <<R(i), R(j),
          IF kind = 0 THEN R(0)
          ELSE Q(i * (nx - 1 - i) * ((ny - 1) - 2 * j), 4)>>]]

Rows(grid) == Cardinality(DOMAIN grid)
Cols(grid) == Cardinality(DOMAIN grid[0])

Min(a, b) == IF a < b THEN a ELSE b

\* ctrlgrid[i:i+p, j:j+p, :], re-indexed from 0; a slice stops at the array's end
Slice(grid, i, j, p) ==
    LET r == Min(i + p, Rows(grid)) - i
        c == Min(j + p, Cols(grid)) - j
    IN  [a \in 0..(r - 1) |-> [b \in 0..(c - 1) |-> grid[i + a][j + b]]]

\* the append loop with patch (pi, pj) starting at row pi * p and column
\* pj * p, its neighbours sharing no control point with it
RECURSIVE AppendPatchesApart(_, _, _, _, _, _)
AppendPatchesApart(grid, p, px, py, k, patches) ==
    IF k >= px * py THEN patches
    ELSE LET pi == k \div py
             pj == k % py
             patch == [coord |-> <<pi, pj>>,
                       ctrl  |-> Slice(grid, pi * p, pj * p, p)]
         IN  AppendPatchesApart(grid, p, px, py, k + 1,
                 [n \in 0..Cardinality(DOMAIN patches) |->
                     IF n \in DOMAIN patches THEN patches[n] ELSE patch])

\* the append loop of __init__: patch (pi, pj) is appended at index
\* len(patches), the loops running pi outermost; a patch closure is kept as
\* the control sub-grid it captured
RECURSIVE AppendPatches(_, _, _, _, _, _)
AppendPatches(grid, p, px, py, k, patches) ==
    IF k >= px * py THEN patches
    ELSE LET pi == k \div py
             pj == k % py
             patch == [coord |-> <<pi, pj>>,
                       ctrl  |-> Slice(grid, pi * (p - 1), pj * (p - 1), p)]
         IN  AppendPatches(grid, p, px, py, k + 1,
                 [n \in 0..Cardinality(DOMAIN patches) |->
                     IF n \in DOMAIN patches THEN patches[n] ELSE patch])

EmptyPatches == [n \in {} |-> 0]

\* MultiBezierSurface.__init__(ctrlgrid, patch_size)
MultiBezierSurface(grid, p) ==
    LET step == p - 1
        px == (Rows(grid) - 1) \div step
        py == (Cols(grid) - 1) \div step
        patches == AppendPatches(grid, p, px, py, 0, EmptyPatches)
    IN  [ctrlgrid |-> grid, patch_size |-> p, step |-> step,
         px |-> px, py |-> py, patches |-> patches,
         idx_by_coord |->
            [c \in {patches[k].coord : k \in DOMAIN patches} |->
                CHOOSE k \in DOMAIN patches : patches[k].coord = c]]

\* the "not found" value of patch_from_coord
None == -1

\* MultiBezierSurface.patch_from_coord(pi, pj)
patch_from_coord(ms, pi, pj) ==
    IF <<pi, pj>> \in DOMAIN ms.idx_by_coord THEN ms.idx_by_coord[<<pi, pj>>]
    ELSE None

\* MultiBezierSurface.eval_patch(idx, u, v)
eval_patch(ms, idx, u, v) == surface_eval(ms.patches[idx].ctrl, u, v)

----------------------------------------------------------------------------
(* Program constants *)

\* 1e-6 is 1 / Million; 1e-12 is 1 / Million^2
\* h = 1e-6 of derivative_uv
HInvUV == 1000000
\* h = 1e-6 of derivative3D
HInv3D == 1000000
\* h = 1e-6 of the trim object's derivatives
HInvTrim == 1000000
\* abs(r_cross_s) < 1e-12 of segment_intersection_2d, as 1 / ParallelInv^2
ParallelInv == 1000000
\* the clustering distance 1e-6
ClusterInv == 1000000
\* b - a < 1e-12 of the partition, as 1 / DegenerateInv^2
DegenerateInv == 1000000
\* max_iter = 25 of refine_intersection_analytic
MaxIter == 25

\* 0 <= x < 1 / k^2, without forming k^2 (TLC's integers are 32 bits wide)
LtInvSq(x, k) == x[1] >= 0 /\ x[1] <= ((x[2] - 1) \div k) \div k
\* 0 <= x < 1 / k
LtInv(x, k) == x[1] >= 0 /\ x[1] <= (x[2] - 1) \div k
\* sqrt(sq) < tol for a squared norm sq and a tolerance tol = p/q > 0
NormLt(sq, tol) ==
    sq[1] <= ((tol[1] * tol[1] * sq[2] - 1) \div tol[2]) \div tol[2]

----------------------------------------------------------------------------
(* 2D points and the curves *)

PSub(a, b) == <<RSub(a[1], b[1]), RSub(a[2], b[2])>>
\* np.linalg.norm(F) ** 2
Norm2(F) == RAdd(RMul(F[1], F[1]), RMul(F[2], F[2]))

\* np.linspace(a, b, n)[k], k = 0..n-1
linspace(a, b, n, k) ==
    IF n = 1 THEN a
    ELSE RAdd(a, RMul(Q(k, n - 1), RSub(b, a)))

\* a step function in place of the interpolation: the value of the
\* neighbour on the left
interp_left(t, c) ==
    LET n == Len(c)
    IN  IF RLe(t, R(0)) THEN c[1]
        ELSE IF RLe(R(1), t) THEN c[n]
        ELSE c[RFloor(RMul(t, R(n - 1))) + 1]

\* np.interp(t, np.linspace(0, 1, n), c) for a sequence c of n >= 2 values:
\* the end values outside [0, 1], linear between neighbours inside
interp(t, c) ==
    LET n == Len(c)
    IN  IF RLe(t, R(0)) THEN c[1]
        ELSE IF RLe(R(1), t) THEN c[n]
        ELSE LET k == RFloor(RMul(t, R(n - 1)))
                 slope == RMul(RSub(c[k + 2], c[k + 1]), R(n - 1))
             IN  RAdd(RMul(slope, RSub(t, Q(k, n - 1))), c[k + 1])

Column(pts, a) == [k \in 1..Len(pts) |-> pts[k][a]]

\* GlobalUVSpline.evaluate_uv(t), polyline variant, for one parameter
evaluate_uv(uv_pts, t) ==
    IF Len(uv_pts) = 1 THEN uv_pts[1]
    ELSE <<interp(t, Column(uv_pts, 1)), interp(t, Column(uv_pts, 2))>>

\* GlobalUVSpline.evaluate_uv(t), polyline variant, for an array t_arr of
\* parameters: np.tile for one control point, else the two np.interp
\* columns stacked
evaluate_uv_array(uv_pts, t_arr) ==
    LET n == Len(uv_pts)
        U == [k \in 1..Len(t_arr) |-> interp(t_arr[k], Column(uv_pts, 1))]
        V == [k \in 1..Len(t_arr) |-> interp(t_arr[k], Column(uv_pts, 2))]
    IN  IF n = 1 THEN [k \in 1..Len(t_arr) |-> uv_pts[1]]
        ELSE [k \in 1..Len(t_arr) |-> <<U[k], V[k]>>]

\* GlobalUVSpline.derivative_uv(t), polyline variant
derivative_uv(uv_pts, t) ==
    LET h  == Q(1, HInvUV)
        t0 == RMax(R(0), RSub(t, h))
        t1 == RMin(R(1), RAdd(t, h))
        d  == PSub(evaluate_uv(uv_pts, t1), evaluate_uv(uv_pts, t0))
    IN  <<RDiv(d[1], RSub(t1, t0)), RDiv(d[2], RSub(t1, t0))>>

\* trim_curve.evaluate_single(s): the trim object is a piecewise-linear curve
\* through its control points, uniformly parametrised over [0, 1]
evaluate_single(trim, s) ==
    IF Len(trim) = 1 THEN trim[1]
    ELSE <<interp(s, Column(trim, 1)), interp(s, Column(trim, 2))>>

\* trim_curve.derivatives(s, order=1)[1]: the forward difference of the
\* emulated trim, dp = (evaluate_single(min(1, s + h)) - p) / h
derivatives(trim, s) ==
    LET h  == Q(1, HInvTrim)
        p  == evaluate_single(trim, s)
        p1 == evaluate_single(trim, RMin(R(1), RAdd(s, h)))
        d  == PSub(p1, p)
    IN  <<RDiv(d[1], h), RDiv(d[2], h)>>

----------------------------------------------------------------------------
(* 3D mapping *)

NaNPoint == <<NaN, NaN, NaN>>

\* the loop body with the patch index taken below an integer coordinate:
\* the domain closed at its upper boundary and open at 0
MapUVClosedAbove(ms, uv) ==
    LET pi == -RFloor(RNeg(uv[1])) - 1
        pj == -RFloor(RNeg(uv[2])) - 1
        u_local == RClip(RSub(uv[1], R(pi)), R(0), R(1))
        v_local == RClip(RSub(uv[2], R(pj)), R(0), R(1))
        pidx == patch_from_coord(ms, pi, pj)
    IN  [pi |-> pi, pj |-> pj, u_local |-> u_local, v_local |-> v_local,
         pidx |-> pidx,
         pt |-> IF pidx = None THEN NaNPoint
                ELSE eval_patch(ms, pidx, u_local, v_local)]

\* the body of evaluate3D's loop for one UV point, with its locals
MapUV_run(ms, uv) ==
    LET pi == RFloor(uv[1])
        pj == RFloor(uv[2])
        u_local == RClip(RSub(uv[1], R(pi)), R(0), R(1))
        v_local == RClip(RSub(uv[2], R(pj)), R(0), R(1))
        pidx == patch_from_coord(ms, pi, pj)
    IN  [pi |-> pi, pj |-> pj, u_local |-> u_local, v_local |-> v_local,
         pidx |-> pidx,
         pt |-> IF pidx = None THEN NaNPoint
                ELSE eval_patch(ms, pidx, u_local, v_local)]

\* the body of evaluate3D's loop for one UV point: the point appended
MapUV(ms, uv) == MapUV_run(ms, uv).pt

\* GlobalUVSpline.evaluate3D(t, multi_surf) for one parameter
evaluate3D(uv_pts, ms, t) == MapUV(ms, evaluate_uv(uv_pts, t))

\* GlobalUVSpline.evaluate3D(t, multi_surf) for an array of parameters
evaluate3D_array(uv_pts, ms, tarr) ==
    [k \in 1..Len(tarr) |-> evaluate3D(uv_pts, ms, tarr[k])]

\* GlobalUVSpline.derivative3D(t, multi_surf) with what it evaluated: the
\* two parameters, the two points, the divisor and the quotient
derivative3D_run(uv_pts, ms, t) ==
    LET h  == Q(1, HInv3D)
        t0 == RMax(R(0), RSub(t, h))
        t1 == RMin(R(1), RAdd(t, h))
        P0 == evaluate3D(uv_pts, ms, t0)
        P1 == evaluate3D(uv_pts, ms, t1)
        divisor == RMul(R(2), h)
    IN  [t0 |-> t0, t1 |-> t1, P0 |-> P0, P1 |-> P1, divisor |-> divisor,
         d3D |-> [k \in 1..3 |-> RDiv(RSub(P1[k], P0[k]), divisor)]]

\* GlobalUVSpline.derivative3D(t, multi_surf)
derivative3D(uv_pts, ms, t) == derivative3D_run(uv_pts, ms, t).d3D

----------------------------------------------------------------------------
(* Seed finding, Newton refinement, classification *)

\* the "no intersection" value of segment_intersection_2d
NoHit == <<>>

\* the test with open ranges, 0 < t < 1 and 0 < u < 1
segment_intersection_open(p1, p2, q1, q2) ==
    LET r == PSub(p2, p1)
        s == PSub(q2, q1)
        r_cross_s == RSub(RMul(r[1], s[2]), RMul(r[2], s[1]))
        q_p == PSub(q1, p1)
    IN  IF LtInvSq(RAbs(r_cross_s), ParallelInv) THEN NoHit
        ELSE LET t == RDiv(RSub(RMul(q_p[1], s[2]), RMul(q_p[2], s[1])), r_cross_s)
                 u == RDiv(RSub(RMul(q_p[1], r[2]), RMul(q_p[2], r[1])), r_cross_s)
             IN  IF RLt(R(0), t) /\ RLt(t, R(1)) /\ RLt(R(0), u) /\ RLt(u, R(1))
                 THEN <<t, u>>
                 ELSE NoHit

\* both components of v are below 1/1000 in size
Short(v) == LtInv(RAbs(v[1]), 1000) /\ LtInv(RAbs(v[2]), 1000)

\* v with both components multiplied by k
Scaled(v, k) == <<RMul(R(k), v[1]), RMul(R(k), v[2])>>

\* lines 123-124: <<t, u>> if both are in [0, 1]
HitIfWithin(t, u) ==
    IF RLe(R(0), t) /\ RLe(t, R(1)) /\ RLe(R(0), u) /\ RLe(u, R(1))
    THEN <<t, u>>
    ELSE NoHit

\* lines 117-124 on r, s, q - p and r x s, the vectors multiplied by k
HitOfCross(r, s, q_p, r_cross_s, k) ==
    IF (IF k = 1 THEN LtInvSq(RAbs(r_cross_s), ParallelInv)
        ELSE RLt(RAbs(r_cross_s), R(1)))
    THEN NoHit
    ELSE HitIfWithin(
            RDiv(RSub(RMul(q_p[1], s[2]), RMul(q_p[2], s[1])), r_cross_s),
            RDiv(RSub(RMul(q_p[1], r[2]), RMul(q_p[2], r[1])), r_cross_s))

\* lines 116-124 on r, s, q - p multiplied by k
HitOfScaled(r, s, q_p, k) ==
    HitOfCross(r, s, q_p, RSub(RMul(r[1], s[2]), RMul(r[2], s[1])), k)

\* the factor k: ParallelInv for three short vectors, else 1
ScaleOf(r, s, q_p) ==
    IF Short(r) /\ Short(s) /\ Short(q_p) THEN ParallelInv ELSE 1

\* lines 116-124 on r, s, q - p, multiplied by k
HitAtScale(r, s, q_p, k) ==
    HitOfScaled(Scaled(r, k), Scaled(s, k), Scaled(q_p, k), k)

\* lines 116-124 on r = p2 - p1, s = q2 - q1 and q - p = q1 - p1
HitOfVectors(r, s, q_p) == HitAtScale(r, s, q_p, ScaleOf(r, s, q_p))

\* segment_intersection_2d(p1, p2, q1, q2): <<t, u>> or NoHit.  TLC's
\* integers cannot hold a cross product near 1e-12, so for three short
\* vectors r, s, q - p the products are formed on the vectors multiplied by
\* ParallelInv: r x s becomes r x s * 1e12, to be compared with 1, and the
\* quotients t and u are unchanged
segment_intersection_2d(p1, p2, q1, q2) ==
    HitOfVectors(PSub(p2, p1), PSub(q2, q1), PSub(q1, p1))

\* the edge test with an endpoint level with the point taken as above it
EdgeTogglesAtOrAbove(pt, poly, i) ==
    LET n  == Len(poly)
        x  == pt[1]
        y  == pt[2]
        x0 == poly[i + 1][1]
        y0 == poly[i + 1][2]
        x1 == poly[((i + 1) % n) + 1][1]
        y1 == poly[((i + 1) % n) + 1][2]
    IN  /\ RLe(y, y0) # RLe(y, y1)
        /\ RLt(x, RAdd(RDiv(RMul(RSub(x1, x0), RSub(y, y0)), RSub(y1, y0)), x0))

\* the test of point_in_polygon for the edge from poly[i] to poly[(i+1) % n]
\* (i from 0).  The divisor y1 - y0 + 1e-30 is y1 - y0 in doubles for every
\* y1 # y0 of the model's data, and the division is reached only if y1 # y0
EdgeToggles(pt, poly, i) ==
    LET n  == Len(poly)
        x  == pt[1]
        y  == pt[2]
        x0 == poly[i + 1][1]
        y0 == poly[i + 1][2]
        x1 == poly[((i + 1) % n) + 1][1]
        y1 == poly[((i + 1) % n) + 1][2]
    IN  /\ RLt(y, y0) # RLt(y, y1)
        /\ RLt(x, RAdd(RDiv(RMul(RSub(x1, x0), RSub(y, y0)), RSub(y1, y0)), x0))

\* the loop with `inside = True` in place of `inside = not inside`
RECURSIVE PipLoopSticky(_, _, _, _)
PipLoopSticky(pt, poly, i, inside) ==
    IF i >= Len(poly) THEN inside
    ELSE PipLoopSticky(pt, poly, i + 1, inside \/ EdgeToggles(pt, poly, i))

\* the loop over the edges between consecutive points only
RECURSIVE PipLoopOpen(_, _, _, _)
PipLoopOpen(pt, poly, i, inside) ==
    IF i >= Len(poly) - 1 THEN inside
    ELSE PipLoopOpen(pt, poly, i + 1,
                     IF EdgeToggles(pt, poly, i) THEN ~inside ELSE inside)

RECURSIVE PipLoop(_, _, _, _)
PipLoop(pt, poly, i, inside) ==
    IF i >= Len(poly) THEN inside
    ELSE PipLoop(pt, poly, i + 1,
                 IF EdgeToggles(pt, poly, i) THEN ~inside ELSE inside)

\* point_in_polygon(pt, poly)
point_in_polygon(pt, poly) == PipLoop(pt, poly, 0, FALSE)

\* the residual of (t, s), squared: np.linalg.norm(P - Q) ** 2
Residual2(uv_pts, trim, t, s) ==
    Norm2(PSub(evaluate_uv(uv_pts, t), evaluate_single(trim, s)))

\* np.linalg.solve(J, -F) for J = column_stack((dP, -dQ)); the caller has
\* excluded det = 0 (LinAlgError)
SolveDelta(dP, dQ, F) ==
    LET a == dP[1]
        b == RNeg(dQ[1])
        c == dP[2]
        d == RNeg(dQ[2])
        det == RSub(RMul(a, d), RMul(b, c))
        m1 == RNeg(F[1])
        m2 == RNeg(F[2])
    IN  <<RDiv(RSub(RMul(m1, d), RMul(b, m2)), det),
          RDiv(RSub(RMul(a, m2), RMul(m1, c)), det)>>

Det(dP, dQ) == RSub(RMul(dP[1], RNeg(dQ[2])), RMul(RNeg(dQ[1]), dP[2]))

\* the loop with the iterate left unclamped after the Newton step
RECURSIVE NewtonLoopNoClip(_, _, _, _, _, _, _)
NewtonLoopNoClip(uv_pts, trim, t, s, tol, it, max_iter) ==
    IF it >= max_iter
    THEN LET fin == Residual2(uv_pts, trim, t, s)
         IN  <<t, s, NormLt(fin, tol), fin, "cap", it>>
    ELSE LET F    == PSub(evaluate_uv(uv_pts, t), evaluate_single(trim, s))
             res  == Norm2(F)
             dP   == derivative_uv(uv_pts, t)
             dQ   == derivatives(trim, s)
         IN  IF NormLt(res, tol) THEN <<t, s, TRUE, res, "residual", it>>
             ELSE IF Det(dP, dQ)[1] = 0 THEN <<t, s, FALSE, res, "singular", it>>
             ELSE LET delta == SolveDelta(dP, dQ, F)
                      t1 == RAdd(t, delta[1])
                      s1 == RAdd(s, delta[2])
                  IN  IF NormLt(Norm2(delta), tol)
                      THEN <<t1, s1, TRUE, Residual2(uv_pts, trim, t1, s1),
                             "step", it>>
                      ELSE NewtonLoopNoClip(uv_pts, trim, t1, s1, tol, it + 1,
                                            max_iter)

\* the loop with its return at the iteration cap reporting convergence
\* whatever the residual
RECURSIVE NewtonLoopCapOk(_, _, _, _, _, _, _)
NewtonLoopCapOk(uv_pts, trim, t, s, tol, it, max_iter) ==
    IF it >= max_iter
    THEN <<t, s, TRUE, Residual2(uv_pts, trim, t, s), "cap", it>>
    ELSE LET F    == PSub(evaluate_uv(uv_pts, t), evaluate_single(trim, s))
             res  == Norm2(F)
             dP   == derivative_uv(uv_pts, t)
             dQ   == derivatives(trim, s)
         IN  IF NormLt(res, tol) THEN <<t, s, TRUE, res, "residual", it>>
             ELSE IF Det(dP, dQ)[1] = 0 THEN <<t, s, FALSE, res, "singular", it>>
             ELSE LET delta == SolveDelta(dP, dQ, F)
                      t1 == RClip(RAdd(t, delta[1]), R(0), R(1))
                      s1 == RClip(RAdd(s, delta[2]), R(0), R(1))
                  IN  IF NormLt(Norm2(delta), tol)
                      THEN <<t1, s1, TRUE, Residual2(uv_pts, trim, t1, s1),
                             "step", it>>
                      ELSE NewtonLoopCapOk(uv_pts, trim, t1, s1, tol, it + 1, max_iter)

\* the loop with the singular system reported as converged
RECURSIVE NewtonLoopSingularOk(_, _, _, _, _, _, _)
NewtonLoopSingularOk(uv_pts, trim, t, s, tol, it, max_iter) ==
    IF it >= max_iter
    THEN LET fin == Residual2(uv_pts, trim, t, s)
         IN  <<t, s, NormLt(fin, tol), fin, "cap", it>>
    ELSE LET F    == PSub(evaluate_uv(uv_pts, t), evaluate_single(trim, s))
             res  == Norm2(F)
             dP   == derivative_uv(uv_pts, t)
             dQ   == derivatives(trim, s)
         IN  IF NormLt(res, tol) THEN <<t, s, TRUE, res, "residual", it>>
             ELSE IF Det(dP, dQ)[1] = 0 THEN <<t, s, TRUE, res, "singular", it>>
             ELSE LET delta == SolveDelta(dP, dQ, F)
                      t1 == RClip(RAdd(t, delta[1]), R(0), R(1))
                      s1 == RClip(RAdd(s, delta[2]), R(0), R(1))
                  IN  IF NormLt(Norm2(delta), tol)
                      THEN <<t1, s1, TRUE, Residual2(uv_pts, trim, t1, s1),
                             "step", it>>
                      ELSE NewtonLoopSingularOk(uv_pts, trim, t1, s1, tol, it + 1, max_iter)

\* the loop of refine_intersection_analytic from its iteration `it` on, at
\* the clamped iterate (t, s); the result is
\* <<t, s, converged, residual^2, exit, iterations>>: the returned tuple,
\* the return statement taken ("residual": line 144, "singular": line 152,
\* "step": line 158, "cap": line 161) and the number of iterations begun
\* before the one that returned
RECURSIVE NewtonLoop(_, _, _, _, _, _, _)
NewtonLoop(uv_pts, trim, t, s, tol, it, max_iter) ==
    IF it >= max_iter
    THEN LET fin == Residual2(uv_pts, trim, t, s)
         IN  <<t, s, NormLt(fin, tol), fin, "cap", it>>
    ELSE LET F    == PSub(evaluate_uv(uv_pts, t), evaluate_single(trim, s))
             res  == Norm2(F)
             dP   == derivative_uv(uv_pts, t)
             dQ   == derivatives(trim, s)
         IN  IF NormLt(res, tol) THEN <<t, s, TRUE, res, "residual", it>>
             ELSE IF Det(dP, dQ)[1] = 0 THEN <<t, s, FALSE, res, "singular", it>>
             ELSE LET delta == SolveDelta(dP, dQ, F)
                      t1 == RClip(RAdd(t, delta[1]), R(0), R(1))
                      s1 == RClip(RAdd(s, delta[2]), R(0), R(1))
                  IN  IF NormLt(Norm2(delta), tol)
                      THEN <<t1, s1, TRUE, Residual2(uv_pts, trim, t1, s1),
                             "step", it>>
                      ELSE NewtonLoop(uv_pts, trim, t1, s1, tol, it + 1, max_iter)

\* the run of refine_intersection_analytic(spline_uv, trim_curve, t0, s0,
\* tol): its returned tuple with the exit taken and the iteration count
refine_run(uv_pts, trim, t0, s0, tol) ==
    NewtonLoop(uv_pts, trim, RClip(t0, R(0), R(1)), RClip(s0, R(0), R(1)),
               tol, 0, MaxIter)

\* refine_intersection_analytic(spline_uv, trim_curve, t0, s0, tol)
refine_intersection_analytic(uv_pts, trim, t0, s0, tol) ==
    SubSeq(refine_run(uv_pts, trim, t0, s0, tol), 1, 4)

----------------------------------------------------------------------------
(* Sorting, clustering and the partition *)

\* sorted(intersections, key=lambda x: x[0]): a stable sort by t
RECURSIVE InsertByT(_, _)
InsertByT(sorted, item) ==
    IF sorted = <<>> THEN <<item>>
    ELSE IF RLt(item[1], sorted[Len(sorted)][1])
         THEN Append(InsertByT(SubSeq(sorted, 1, Len(sorted) - 1), item),
                     sorted[Len(sorted)])
         ELSE Append(sorted, item)

\* the list left in the order of the seed loop
Unsorted(items) == items

RECURSIVE SortByT(_)
SortByT(items) ==
    IF items = <<>> THEN <<>>
    ELSE InsertByT(SortByT(SubSeq(items, 1, Len(items) - 1)), items[Len(items)])

\* the loop body without the merge: every item is appended
ClusterStepNoMerge(reps, item) == Append(reps, item)

\* a loop body that keeps the later of two merged items, whatever the
\* residuals
ClusterStepKeepLast(reps, item) ==
    IF reps = <<>> THEN <<item>>
    ELSE LET last == reps[Len(reps)]
         IN  IF LtInv(RAbs(RSub(item[1], last[1])), ClusterInv)
             THEN [reps EXCEPT ![Len(reps)] = item]
             ELSE Append(reps, item)

\* the body of the clustering loop for one item
ClusterStep(reps, item) ==
    IF reps = <<>> THEN <<item>>
    ELSE LET last == reps[Len(reps)]
         IN  IF LtInv(RAbs(RSub(item[1], last[1])), ClusterInv)
             THEN IF RLt(item[4], last[4])
                  THEN [reps EXCEPT ![Len(reps)] = item]
                  ELSE reps
             ELSE Append(reps, item)

RECURSIVE ClusterLoop(_, _)
ClusterLoop(reps, items) ==
    IF items = <<>> THEN reps
    ELSE ClusterLoop(ClusterStep(reps, Head(items)), Tail(items))

\* the values of S listed from the largest down
RECURSIVE SortedSetDesc(_)
SortedSetDesc(S) ==
    IF S = {} THEN <<>>
    ELSE LET m == CHOOSE x \in S : \A y \in S : RLe(y, x)
         IN  <<m>> \o SortedSetDesc(S \ {m})

\* sorted(list(S)) for a finite set S of rationals
RECURSIVE SortedSet(_)
SortedSet(S) ==
    IF S = {} THEN <<>>
    ELSE LET m == CHOOSE x \in S : \A y \in S : RLe(x, y)
         IN  <<m>> \o SortedSet(S \ {m})

\* t_vals built from the converged intersections only
TValsConvergedOnly(reps) ==
    SortedSet({R(0), R(1)} \cup
              {RClip(reps[k][1], R(0), R(1)) :
                  k \in {n \in 1..Len(reps) : reps[n][3]}})

\* t_vals built without the closing 1.0
TValsNoEnd(reps) ==
    SortedSet({R(0)} \cup
              {RClip(reps[k][1], R(0), R(1)) : k \in 1..Len(reps)})

\* t_vals of the partition: 0.0, every clustered t and 1.0, clamped to
\* [0, 1], made a set, sorted
TVals(reps) ==
    SortedSet({R(0), R(1)} \cup
              {RClip(reps[k][1], R(0), R(1)) : k \in 1..Len(reps)})

\* an emitted segment with its two ends exchanged
SegmentOfSwapped(uv_pts, ms, a, b, n) ==
    LET seg_t == [k \in 1..n |-> linspace(a, b, n, k - 1)]
    IN  [t0 |-> b, t1 |-> a, t |-> seg_t,
         UV |-> [k \in 1..n |-> evaluate_uv(uv_pts, seg_t[k])],
         pts3d |-> evaluate3D_array(uv_pts, ms, seg_t)]

\* one emitted segment (lines 203-206)
SegmentOf(uv_pts, ms, a, b, n) ==
    LET seg_t == [k \in 1..n |-> linspace(a, b, n, k - 1)]
    IN  [t0 |-> a, t1 |-> b, t |-> seg_t,
         UV |-> [k \in 1..n |-> evaluate_uv(uv_pts, seg_t[k])],
         pts3d |-> evaluate3D_array(uv_pts, ms, seg_t)]

\* the loop with b taken as the last boundary instead of the next one
RECURSIVE SegmentLoopToEnd(_, _, _, _, _, _, _)
SegmentLoopToEnd(uv_pts, poly, ms, tv, n, k, segs) ==
    IF k >= Len(tv) THEN segs
    ELSE LET a == tv[k]
             b == tv[Len(tv)]
             mid == RMul(Q(1, 2), RAdd(a, b))
         IN  SegmentLoopToEnd(uv_pts, poly, ms, tv, n, k + 1,
                 IF LtInvSq(RSub(b, a), DegenerateInv) \/ RLt(b, a) THEN segs
                 ELSE IF point_in_polygon(evaluate_uv(uv_pts, mid), poly)
                      THEN Append(segs, SegmentOf(uv_pts, ms, a, b, n))
                      ELSE segs)

\* the loop emitting a segment for every pair that is long enough, inside
\* or not
RECURSIVE SegmentLoopAll(_, _, _, _, _, _, _)
SegmentLoopAll(uv_pts, poly, ms, tv, n, k, segs) ==
    IF k >= Len(tv) THEN segs
    ELSE LET a == tv[k]
             b == tv[k + 1]
         IN  SegmentLoopAll(uv_pts, poly, ms, tv, n, k + 1,
                 IF LtInvSq(RSub(b, a), DegenerateInv) \/ RLt(b, a) THEN segs
                 ELSE Append(segs, SegmentOf(uv_pts, ms, a, b, n)))

\* the loop over consecutive pairs of t_vals (lines 195-206), from index k
RECURSIVE SegmentLoop(_, _, _, _, _, _, _)
SegmentLoop(uv_pts, poly, ms, tv, n, k, segs) ==
    IF k >= Len(tv) THEN segs
    ELSE LET a == tv[k]
             b == tv[k + 1]
             mid == RMul(Q(1, 2), RAdd(a, b))
         IN  SegmentLoop(uv_pts, poly, ms, tv, n, k + 1,
                 IF LtInvSq(RSub(b, a), DegenerateInv) \/ RLt(b, a) THEN segs
                 ELSE IF point_in_polygon(evaluate_uv(uv_pts, mid), poly)
                      THEN Append(segs, SegmentOf(uv_pts, ms, a, b, n))
                      ELSE segs)

----------------------------------------------------------------------------
(* Inputs *)

\* the point (x/8, y/8)
Pt8(x, y) == <<Q(x, 8), Q(y, 8)>>

\* UV curves given as raw control points (the polyline variant)
SquareCurves ==
    { <<Pt8(0, 4), Pt8(8, 4)>>,               \* straight, through the square
      <<Pt8(0, 3), Pt8(8, 5)>>,               \* slanted, through the square
      <<Pt8(-4, 4), Pt8(12, 4)>>,             \* starts and ends off the surface
      <<Pt8(3, 4), Pt8(5, 4)>>,               \* inside the square
      <<Pt8(3, 4), Pt8(4, 16), Pt8(5, 4)>>,   \* ends inside, spike leaves it
      <<Pt8(1, 1), Pt8(1, 7)>>,               \* left of the square
      <<Pt8(1, 3), Pt8(4, 4), Pt8(1, 5)>>,    \* ends left of it, tip inside
      <<Pt8(3, 4), Pt8(4, 6), Pt8(5, 4)>> }   \* touches the top side from inside
\* a long, fast curve: 12 units of UV per unit of t
LongCurve == <<Pt8(0, 0), Pt8(96, 0)>>

\* the square [1/4, 3/4]^2, closed
SquareTrim == <<Pt8(2, 2), Pt8(6, 2), Pt8(6, 6), Pt8(2, 6), Pt8(2, 2)>>
\* an open wedge whose tip (14, -1) lies beyond the end of the long curve
WedgeTrim == <<Pt8(72, 32), Pt8(112, -8), Pt8(72, -48)>>

\* a curve with a kink at t = 1/2, which a single sample segment cuts off
KinkCurve == <<Pt8(0, 0), Pt8(4, 8), Pt8(8, 0)>>
\* an open trim that crosses the kinked curve at (1/4, 1/2) and ends, on the
\* vertical x = 1/4, below that point
HookTrim == <<Pt8(0, 8), Pt8(6, -4), Pt8(2, -2), Pt8(2, 2)>>

\* a straight trim across the chord of the kinked curve that starts, on the
\* vertical x = 1/4, below the curve
NubTrim == <<Pt8(2, 2), Pt8(2, -2)>>

\* the same segment followed by a third vertex: with its closing edge, a
\* triangle over the second leg of KinkCurve
FlagTrim == <<Pt8(2, 2), Pt8(2, -2), Pt8(8, 12)>>

\* refine_tol: the default 1e-9
DefaultTol == Q(1, 1000000000)
\* and a coarse one, 1e-1
CoarseTol == Q(1, 10)

\* (nx, ny, patch_size, kind): the flat single patch
FlatGrid == <<4, 4, 4, 0>>
\* and a bumped row of two patches
BumpGrid == <<7, 4, 4, 1>>

\* the runs of the script: (UV curve, trim curve, refine_tol, grid)
Runs ==
    {<<c, SquareTrim, DefaultTol, FlatGrid>> : c \in SquareCurves}
    \cup {<<c, SquareTrim, DefaultTol, BumpGrid>> :
              c \in {<<Pt8(0, 4), Pt8(8, 4)>>, <<Pt8(-4, 4), Pt8(12, 4)>>}}
    \cup {<<LongCurve, WedgeTrim, DefaultTol, BumpGrid>>,
          <<LongCurve, WedgeTrim, CoarseTol, BumpGrid>>,
          <<KinkCurve, HookTrim, DefaultTol, FlatGrid>>,
          <<KinkCurve, NubTrim, DefaultTol, FlatGrid>>,
          <<KinkCurve, FlagTrim, DefaultTol, FlatGrid>>}

NotYet == <<>>

----------------------------------------------------------------------------
(* The script: construct, clip, map *)

Init ==
    /\ \E r \in Runs :
          /\ ctrlgrid = ControlGrid(r[4][1], r[4][2], r[4][4])
          /\ patch_size = r[4][3]
          /\ spline_uv = r[1]
          /\ trim_curve = r[2]
          /\ refine_tol = r[3]
    /\ multi_surf = NotYet
    /\ n_spline_samples \in 1..MaxSplineSamples
    /\ n_trim_samples \in 1..MaxTrimSamples
    /\ pc = "new"
    /\ ts = NotYet /\ spine = NotYet /\ ss = NotYet /\ trim_pts = NotYet
    /\ seed_i = 0 /\ seed_j = 0
    /\ intersections = <<>>
    /\ clustered = <<>>
    /\ trim_variant \in {"object", "raw"}
    /\ newton = NotYet
    /\ calls = <<>>
    /\ uv_eval = NotYet
    /\ segments = <<>>
    /\ t_vals = <<>>
    /\ pip_eval = <<>>
    /\ pair_eval = <<>>
    /\ deriv_eval = <<>>
    /\ map_eval = <<>>
    /\ samp_pts3d = NotYet
    /\ patch_eval = NotYet

\* multi_surf = MultiBezierSurface(ctrlgrid, patch_size)
Construct ==
    /\ pc = "new"
    /\ multi_surf' = MultiBezierSurface(ctrlgrid, patch_size)
    /\ pc' = "built"
    /\ UNCHANGED <<calls, newton, trim_variant, uv_eval,
                   clustered, ctrlgrid, patch_size, spline_uv, trim_curve,
                   n_spline_samples, n_trim_samples, refine_tol, ts, spine,
                   ss, trim_pts, seed_i, seed_j, intersections, segments, t_vals,
                   samp_pts3d, patch_eval,
                   pip_eval, pair_eval, deriv_eval, map_eval>>

\* the sampling step with the list `intersections` carried over instead of
\* started empty
SampleKeepSeeds ==
    /\ pc = "built"
    /\ trim_variant = "object"
    /\ ts' = [k \in 1..(n_spline_samples + 1) |->
                linspace(R(0), R(1), n_spline_samples + 1, k - 1)]
    /\ spine' = [k \in 1..(n_spline_samples + 1) |->
                evaluate_uv(spline_uv, ts'[k])]
    /\ ss' = [k \in 1..(n_trim_samples + 1) |->
                linspace(R(0), R(1), n_trim_samples + 1, k - 1)]
    /\ trim_pts' = [k \in 1..(n_trim_samples + 1) |->
                evaluate_single(trim_curve, ss'[k])]
    /\ seed_i' = 0 /\ seed_j' = 0
    /\ pc' = "seeds"
    /\ UNCHANGED <<calls, newton, trim_variant, uv_eval, intersections,
                   clustered, ctrlgrid, patch_size, multi_surf, spline_uv,
                   trim_curve, n_spline_samples, n_trim_samples, refine_tol,
                   segments, t_vals, samp_pts3d, patch_eval,
                   pip_eval, pair_eval, deriv_eval, map_eval>>

\* lines 166-168: sample both curves
Sample ==
    /\ pc = "built"
    /\ ts' = [k \in 1..(n_spline_samples + 1) |->
                linspace(R(0), R(1), n_spline_samples + 1, k - 1)]
    /\ spine' = [k \in 1..(n_spline_samples + 1) |->
                evaluate_uv(spline_uv, ts'[k])]
    /\ IF trim_variant = "raw"
         THEN \* line 167: a list of points has no evaluate_single: the
              \* attribute lookup raises AttributeError
              /\ pc' = "raised"
              /\ UNCHANGED <<ss, trim_pts, intersections, seed_i, seed_j,
                   pip_eval, pair_eval, deriv_eval, map_eval>>
         ELSE /\ ss' = [k \in 1..(n_trim_samples + 1) |->
                         linspace(R(0), R(1), n_trim_samples + 1, k - 1)]
              /\ trim_pts' = [k \in 1..(n_trim_samples + 1) |->
                         evaluate_single(trim_curve, ss'[k])]
              /\ intersections' = <<>>
              /\ seed_i' = 0 /\ seed_j' = 0
              /\ pc' = "seeds"
    /\ UNCHANGED <<calls, newton, trim_variant, uv_eval,
                   clustered, ctrlgrid, patch_size, multi_surf, spline_uv, trim_curve,
                   n_spline_samples, n_trim_samples, refine_tol, segments, t_vals,
                   samp_pts3d, patch_eval,
                   pip_eval, pair_eval, deriv_eval, map_eval>>

\* the seed (t_init, s_init) of the segment pair (a, b), or NoHit if the
\* segments do not intersect (lines 173-177; a, b from 0)
SeedFromHit(hit, a, b) ==
    IF hit = NoHit THEN NoHit
    ELSE <<RAdd(ts[a + 1], RMul(hit[1], RSub(ts[a + 2], ts[a + 1]))),
           RAdd(ss[b + 1], RMul(hit[2], RSub(ss[b + 2], ss[b + 1])))>>

SeedInit(a, b) ==
    SeedFromHit(segment_intersection_2d(spine[a + 1], spine[a + 2],
                                        trim_pts[b + 1], trim_pts[b + 2]), a, b)

\* the refinement of the seed of the segment pair (a, b): <<run>>, or <<>>
\* if the segments do not intersect (lines 170-178; a, b from 0)
RunFromSeed(seed) ==
    IF seed = NoHit THEN <<>>
    ELSE <<refine_run(spline_uv, trim_curve, seed[1], seed[2], refine_tol)>>

RunOf(a, b) == RunFromSeed(SeedInit(a, b))

\* the seed of the segment pair (a, b), refined: <<item>>, or <<>> if the
\* segments do not intersect (lines 170-179; a, b from 0)
SeedOf(a, b) ==
    LET seed == SeedInit(a, b)
    IN  IF seed = NoHit THEN <<>>
        ELSE <<refine_intersection_analytic(spline_uv, trim_curve,
                                            seed[1], seed[2], refine_tol)>>

\* one pass of the inner loop body, for the pair (seed_i, seed_j)
SeedStep ==
    /\ pc = "seeds"
    /\ seed_i < Len(spine) - 1
    /\ intersections' = intersections \o SeedOf(seed_i, seed_j)
    /\ newton' = RunOf(seed_i, seed_j)
    /\ IF seed_j + 1 < Len(trim_pts) - 1
         THEN seed_j' = seed_j + 1 /\ seed_i' = seed_i
         ELSE seed_j' = 0 /\ seed_i' = seed_i + 1
    /\ UNCHANGED <<calls, trim_variant, uv_eval,
                   clustered, ctrlgrid, patch_size, multi_surf, spline_uv, trim_curve,
                   n_spline_samples, n_trim_samples, refine_tol, pc, ts,
                   spine, ss, trim_pts, segments, t_vals, samp_pts3d, patch_eval,
                   pip_eval, pair_eval, deriv_eval, map_eval>>

\* lines 180-190, once the seed loop has ended: sort by t, then cluster
Cluster ==
    /\ pc = "seeds"
    /\ seed_i >= Len(spine) - 1
    /\ intersections' = SortByT(intersections)
    /\ clustered' = ClusterLoop(<<>>, intersections')
    /\ pc' = "partition"
    /\ UNCHANGED <<calls, newton, trim_variant, uv_eval,
                   ctrlgrid, patch_size, multi_surf, spline_uv, trim_curve,
                   n_spline_samples, n_trim_samples, refine_tol, ts, spine,
                   ss, trim_pts, seed_i, seed_j, segments, t_vals, samp_pts3d,
                   patch_eval,
                   pip_eval, pair_eval, deriv_eval, map_eval>>

\* lines 191-207: intersections = clustered, partition [0, 1], classify,
\* emit the inside segments
Partition ==
    /\ pc = "partition"
    /\ intersections' = clustered
    /\ t_vals' = TVals(intersections')
    /\ segments' = SegmentLoop(spline_uv, trim_pts, multi_surf,
                               t_vals', SamplePerSegment, 1, <<>>)
    /\ calls' = Append(calls, [args |-> <<spline_uv, trim_curve, n_spline_samples,
                                          n_trim_samples, refine_tol>>,
                               segments |-> segments',
                               intersections |-> intersections'])
    /\ pc' = "clipped"
    /\ UNCHANGED <<newton, trim_variant, uv_eval,
                   clustered, ctrlgrid, patch_size, multi_surf, spline_uv,
                   trim_curve, n_spline_samples, n_trim_samples, refine_tol,
                   ts, spine, ss, trim_pts, seed_i, seed_j, samp_pts3d,
                   patch_eval,
                   pip_eval, pair_eval, deriv_eval, map_eval>>

\* the mapping step storing the sampled UV points over the curve's own
\* control points
MapSplineInPlace ==
    /\ pc = "clipped"
    /\ samp_pts3d' = evaluate3D_array(spline_uv, multi_surf,
            [k \in 1..MapSamples |-> linspace(R(0), R(1), MapSamples, k - 1)])
    /\ spline_uv' = evaluate_uv_array(spline_uv,
            [k \in 1..MapSamples |-> linspace(R(0), R(1), MapSamples, k - 1)])
    /\ pc' = "done"
    /\ UNCHANGED <<calls, newton, trim_variant, uv_eval, clustered, ctrlgrid,
                   patch_size, multi_surf, trim_curve, n_spline_samples,
                   n_trim_samples, refine_tol, ts, spine, ss, trim_pts,
                   seed_i, seed_j, intersections, segments, t_vals, patch_eval,
                   pip_eval, pair_eval, deriv_eval, map_eval>>

\* lines 298-299: samp_pts3d = spline_uv.evaluate3D(np.linspace(0, 1, n), multi_surf)
MapSpline ==
    /\ pc = "clipped"
    /\ samp_pts3d' = evaluate3D_array(spline_uv, multi_surf,
            [k \in 1..MapSamples |-> linspace(R(0), R(1), MapSamples, k - 1)])
    /\ pc' = "done"
    /\ UNCHANGED <<calls, newton, trim_variant, uv_eval,
                   clustered, ctrlgrid, patch_size, multi_surf, spline_uv, trim_curve,
                   n_spline_samples, n_trim_samples, refine_tol, ts, spine,
                   ss, trim_pts, seed_i, seed_j, intersections, segments, t_vals,
                   patch_eval,
                   pip_eval, pair_eval, deriv_eval, map_eval>>

Next == Construct \/ Sample \/ SeedStep \/ Cluster \/ Partition \/ MapSpline

Spec == Init /\ [][Next]_vars

----------------------------------------------------------------------------
(* The patch grid on its own: construction and direct patch evaluation *)

EvalParams == {Q(k, EvalDen) : k \in 0..EvalDen}

InitGrid ==
    /\ \E nx \in 2..MaxDim, ny \in 2..MaxDim, kind \in {0, 1} :
          ctrlgrid = ControlGrid(nx, ny, kind)
    /\ patch_size \in 2..MaxPatch
    /\ multi_surf = NotYet
    /\ spline_uv = <<Pt8(0, 4), Pt8(8, 4)>>
    /\ trim_curve = SquareTrim
    /\ refine_tol = DefaultTol
    /\ n_spline_samples = 1
    /\ n_trim_samples = 1
    /\ pc = "new"
    /\ ts = NotYet /\ spine = NotYet /\ ss = NotYet /\ trim_pts = NotYet
    /\ seed_i = 0 /\ seed_j = 0
    /\ intersections = <<>>
    /\ clustered = <<>>
    /\ trim_variant = "object"
    /\ newton = NotYet
    /\ calls = <<>>
    /\ uv_eval = NotYet
    /\ segments = <<>>
    /\ t_vals = <<>>
    /\ pip_eval = <<>>
    /\ pair_eval = <<>>
    /\ deriv_eval = <<>>
    /\ map_eval = <<>>
    /\ samp_pts3d = NotYet
    /\ patch_eval = NotYet

\* multi_surf.eval_patch(idx, u, v) for a patch index and local parameters
EvalPatch ==
    /\ pc = "built"
    /\ \E idx \in DOMAIN multi_surf.patches, u \in EvalParams, v \in EvalParams :
          patch_eval' = [idx |-> idx, u |-> u, v |-> v,
                         pt |-> eval_patch(multi_surf, idx, u, v)]
    /\ pc' = "evaluated"
    /\ UNCHANGED <<calls, newton, trim_variant, uv_eval,
                   clustered, ctrlgrid, patch_size, multi_surf, spline_uv, trim_curve,
                   n_spline_samples, n_trim_samples, refine_tol, ts,
                   spine, ss, trim_pts, seed_i, seed_j, intersections,
                   segments, t_vals, samp_pts3d,
                   pip_eval, pair_eval, deriv_eval, map_eval>>

NextGrid == Construct \/ EvalPatch

SpecGrid == InitGrid /\ [][NextGrid]_vars

----------------------------------------------------------------------------
(* Properties of the patch grid *)

Step == patch_size - 1
Constructed == pc # "new"

\* (nx - 1) and (ny - 1) are integer multiples of step
EvenlyDivisible ==
    /\ (Rows(ctrlgrid) - 1) % Step = 0
    /\ (Cols(ctrlgrid) - 1) % Step = 0

\* every control row and column lies in the sub-grid of some patch
AllCovered ==
    /\ \A a \in DOMAIN ctrlgrid :
          \E k \in DOMAIN multi_surf.patches :
             LET lo == multi_surf.patches[k].coord[1] * Step
             IN  lo <= a /\ a <= lo + patch_size - 1
    /\ \A b \in DOMAIN ctrlgrid[0] :
          \E k \in DOMAIN multi_surf.patches :
             LET lo == multi_surf.patches[k].coord[2] * Step
             IN  lo <= b /\ b <= lo + patch_size - 1

\* C1: construction from a grid whose (nx-1) or (ny-1) is not a multiple of
\* step = patch_size - 1 never succeeds: a constructed patch grid comes from
\* an evenly divisible control grid and leaves no trailing row or column
\* uncovered
C1_UnevenGridRejected == Constructed => (EvenlyDivisible /\ AllCovered)

\* the control point a corner parameter selects: local index 0 at 0, p-1 at 1
CornerIndex(w) == IF w = R(1) THEN patch_size - 1 ELSE 0

\* C3: corner interpolation.  A patch evaluated at local (u, v) with u and
\* v in {0, 1} returns exactly the control point of its sub-grid at local
\* index (0 or p-1, 0 or p-1), which is the control point of the grid at
\* (pi*step + that, pj*step + that); and the Bernstein weights at 0 and at 1
\* form the unit vector of the first, respectively last, control point
C3_CornerInterpolation ==
    /\ (pc = "evaluated" /\ patch_eval.u \in {R(0), R(1)}
                         /\ patch_eval.v \in {R(0), R(1)}) =>
          LET patch == multi_surf.patches[patch_eval.idx]
              a == CornerIndex(patch_eval.u)
              b == CornerIndex(patch_eval.v)
          IN  /\ patch_eval.pt = patch.ctrl[a][b]
              /\ patch_eval.pt = ctrlgrid[patch.coord[1] * Step + a]
                                          [patch.coord[2] * Step + b]
    /\ \A k \in 0..Step :
          /\ bernstein_poly(k, Step, R(0)) = (IF k = 0 THEN R(1) ELSE R(0))
          /\ bernstein_poly(k, Step, R(1)) = (IF k = Step THEN R(1) ELSE R(0))

\* a patch other than the first, of size 3, evaluated at (1, 0), where it
\* returns a control point in the interior of the grid's first axis
C3_Witness ==
    /\ pc = "evaluated"
    /\ patch_size = 3
    /\ patch_eval.idx > 0
    /\ patch_eval.u = R(1) /\ patch_eval.v = R(0)
    /\ RLt(R(0), patch_eval.pt[1])
    /\ RLt(patch_eval.pt[1], R(Rows(ctrlgrid) - 1))

----------------------------------------------------------------------------
(* Properties of the script's run *)

Clipped == pc \in {"clipped", "done"}

\* floor(U) outside [0, px) or floor(V) outside [0, py), stated on U and V
OutOfDomain(uv) ==
    \/ RLt(uv[1], R(0)) \/ RLe(R(multi_surf.px), uv[1])
    \/ RLt(uv[2], R(0)) \/ RLe(R(multi_surf.py), uv[2])

HasNaN(pt) == \E k \in 1..3 : IsNaN(pt[k])

MapParam(k) == linspace(R(0), R(1), MapSamples, k - 1)

\* C2: domain sentinel.  Every parameter whose UV point has floor(U) outside
\* [0, px) or floor(V) outside [0, py) maps to the point with three NaN
\* coordinates, for a scalar parameter and element by element for an array
\* of parameters (the script's samples of the whole curve, and the samples
\* of every emitted segment), whose other elements are still evaluated to
\* points without NaN
C2_DomainSentinel ==
    /\ pc = "done" =>
          \A k \in 1..Len(samp_pts3d) :
             LET uv == evaluate_uv(spline_uv, MapParam(k))
             IN  IF OutOfDomain(uv)
                 THEN /\ samp_pts3d[k] = NaNPoint
                      /\ evaluate3D(spline_uv, multi_surf, MapParam(k)) = NaNPoint
                 ELSE ~HasNaN(samp_pts3d[k])
    /\ Clipped =>
          \A n \in 1..Len(segments) : \A k \in 1..Len(segments[n].t) :
             IF OutOfDomain(segments[n].UV[k])
             THEN segments[n].pts3d[k] = NaNPoint
             ELSE ~HasNaN(segments[n].pts3d[k])

\* one array call returns a sentinel for a sample with negative U, a
\* sentinel for a sample with U >= px, and evaluated points for others
C2_Witness ==
    /\ pc = "done"
    /\ \E k \in 1..Len(samp_pts3d) :
          /\ RLt(evaluate_uv(spline_uv, MapParam(k))[1], R(0))
          /\ samp_pts3d[k] = NaNPoint
    /\ \E k \in 1..Len(samp_pts3d) :
          /\ RLe(R(multi_surf.px), evaluate_uv(spline_uv, MapParam(k))[1])
          /\ samp_pts3d[k] = NaNPoint
    /\ \E k \in 1..Len(samp_pts3d) : ~HasNaN(samp_pts3d[k])

\* C4: root validity.  Every intersection reported with converged = true
\* has ||P(t) - Q(s)|| < 10 * refine_tol at its reported (t, s), and its
\* reported residual is below that bound too
C4_RootValidity ==
    \A k \in 1..Len(intersections) :
       intersections[k][3] =>
          /\ NormLt(Residual2(spline_uv, trim_curve,
                              intersections[k][1], intersections[k][2]),
                    RMul(R(10), refine_tol))
          /\ NormLt(intersections[k][4], RMul(R(10), refine_tol))

(* Plane geometry used to state the scenarios *)

\* (a - o) x (b - o)
Cross(o, a, b) ==
    RSub(RMul(RSub(a[1], o[1]), RSub(b[2], o[2])),
         RMul(RSub(a[2], o[2]), RSub(b[1], o[1])))

Sign(x) == IF x[1] > 0 THEN 1 ELSE IF x[1] < 0 THEN -1 ELSE 0

\* the edges of the polygon closed over poly, as pairs of points
Edges(poly) ==
    {<<poly[k], poly[(k % Len(poly)) + 1]>> : k \in 1..Len(poly)}
ProperEdges(poly) == {e \in Edges(poly) : e[1] # e[2]}

\* pt lies in the open interior of the convex polygon poly
StrictlyInside(pt, poly) ==
    /\ ProperEdges(poly) # {}
    /\ \/ \A e \in ProperEdges(poly) : Sign(Cross(e[1], e[2], pt)) = 1
       \/ \A e \in ProperEdges(poly) : Sign(Cross(e[1], e[2], pt)) = -1

\* pt lies off the closed convex polygon poly
StrictlyOutside(pt, poly) ==
    /\ \E e \in ProperEdges(poly) : Sign(Cross(e[1], e[2], pt)) = 1
    /\ \E e \in ProperEdges(poly) : Sign(Cross(e[1], e[2], pt)) = -1

\* c lies in the closed box spanned by a and b
InBox(a, b, c) ==
    /\ RLe(RMin(a[1], b[1]), c[1]) /\ RLe(c[1], RMax(a[1], b[1]))
    /\ RLe(RMin(a[2], b[2]), c[2]) /\ RLe(c[2], RMax(a[2], b[2]))

\* the closed segments p1-p2 and q1-q2 share a point
SegmentsMeet(p1, p2, q1, q2) ==
    LET d1 == Sign(Cross(q1, q2, p1))
        d2 == Sign(Cross(q1, q2, p2))
        d3 == Sign(Cross(p1, p2, q1))
        d4 == Sign(Cross(p1, p2, q2))
    IN  \/ d1 * d2 < 0 /\ d3 * d4 < 0
        \/ d1 = 0 /\ InBox(q1, q2, p1)
        \/ d2 = 0 /\ InBox(q1, q2, p2)
        \/ d3 = 0 /\ InBox(p1, p2, q1)
        \/ d4 = 0 /\ InBox(p1, p2, q2)

\* the corners of the bounding box of the sampled UV curve
SpineBox ==
    LET xs == {spine[k][1] : k \in 1..Len(spine)}
        ys == {spine[k][2] : k \in 1..Len(spine)}
        lo(S) == CHOOSE x \in S : \A y \in S : RLe(x, y)
        hi(S) == CHOOSE x \in S : \A y \in S : RLe(y, x)
    IN  {<<lo(xs), lo(ys)>>, <<lo(xs), hi(ys)>>,
         <<hi(xs), lo(ys)>>, <<hi(xs), hi(ys)>>}

\* the boundary set T, as a set
Boundaries ==
    {R(0), R(1)} \cup {intersections[k][1] : k \in 1..Len(intersections)}

\* (a, b) is a consecutive pair of T
ConsecutivePair(a, b) ==
    /\ a \in Boundaries /\ b \in Boundaries /\ RLt(a, b)
    /\ ~\E c \in Boundaries : RLt(a, c) /\ RLt(c, b)

FromDistinctPairs ==
    /\ \A n \in 1..Len(segments) : ConsecutivePair(segments[n].t0, segments[n].t1)
    /\ \A m, n \in 1..Len(segments) :
          m # n => <<segments[m].t0, segments[m].t1>> # <<segments[n].t0, segments[n].t1>>

\* C7 as stated: every segment's (t0, t1) is a consecutive pair of T,
\* distinct segments come from distinct pairs, and the closed ranges
\* [t0, t1] of two distinct segments have no point in common
C7_ClosedRangesDisjoint ==
    Clipped =>
       /\ FromDistinctPairs
       /\ \A m, n \in 1..Len(segments) :
             m # n => \/ RLt(segments[m].t1, segments[n].t0)
                      \/ RLt(segments[n].t1, segments[m].t0)

\* C7 (amended): every segment's (t0, t1) is a consecutive pair of T,
\* distinct segments come from distinct pairs, and two distinct segments
\* overlap in no more than one boundary value: one ends where or before the
\* other begins
C7_PartitionCoverage ==
    Clipped =>
       /\ FromDistinctPairs
       /\ \A m, n \in 1..Len(segments) :
             m # n => \/ RLe(segments[m].t1, segments[n].t0)
                      \/ RLe(segments[n].t1, segments[m].t0)

\* two inside segments adjacent at a shared boundary value
C7_Witness ==
    /\ Clipped
    /\ \E m, n \in 1..Len(segments) : segments[m].t1 = segments[n].t0

(* The scenarios *)

FlatSinglePatch ==
    /\ ctrlgrid = ControlGrid(4, 4, 0)
    /\ patch_size = 4

\* the sampled trim polygon is the square [1/4, 3/4]^2: the trim curve runs
\* round it and the samples include its four corners
SquarePolygon ==
    /\ trim_curve = SquareTrim
    /\ {Pt8(2, 2), Pt8(6, 2), Pt8(6, 6), Pt8(2, 6)}
           \subseteq {trim_pts[k] : k \in 1..Len(trim_pts)}

\* the ordinate of the line through p and q at abscissa x
YAt(p, q, x) ==
    RAdd(p[2], RMul(RDiv(RSub(x, p[1]), RSub(q[1], p[1])), RSub(q[2], p[2])))

\* the UV curve is a straight line that enters the square through its left
\* side and leaves it through its right side, off the corners
CrossesOppositeSides ==
    /\ Len(spline_uv) = 2
    /\ RLt(spline_uv[1][1], Q(1, 4)) /\ RLt(Q(3, 4), spline_uv[2][1])
    /\ \A x \in {Q(1, 4), Q(3, 4)} :
          /\ RLt(Q(1, 4), YAt(spline_uv[1], spline_uv[2], x))
          /\ RLt(YAt(spline_uv[1], spline_uv[2], x), Q(3, 4))

SquareScenario == FlatSinglePatch /\ SquarePolygon /\ CrossesOppositeSides

BoxWithinTrim == \A c \in SpineBox : StrictlyInside(c, trim_pts)

\* the sampled UV curve lies off the closed (convex) sampled trim polygon
\* and meets none of its edges
SpineOutsideTrim ==
    /\ \A k \in 1..Len(spine) : StrictlyOutside(spine[k], trim_pts)
    /\ \A k \in 1..(Len(spine) - 1) : \A e \in Edges(trim_pts) :
          ~SegmentsMeet(spine[k], spine[k + 1], e[1], e[2])

\* the point of the UV curve at t = 1/2
CurveMid == evaluate_uv(spline_uv, Q(1, 2))

WholeCurve == Len(segments) = 1 /\ segments[1].t0 = R(0) /\ segments[1].t1 = R(1)

SeedTs == {Q(5000000 + 6 * k, 10000000) : k \in 0..2} \cup {Q(3, 4)}

\* refined seeds (t, s, converged, err^2): converged with no residual, not
\* converged with a residual of 1/8 or of 1/4, and a converged crossing
\* found at both ends, s = 0 and s = 1, of a closed trim
RefinedSeeds ==
    {<<t, Q(1, 2), TRUE, R(0)>> : t \in SeedTs}
    \cup {<<t, Q(1, 2), FALSE, e>> : t \in SeedTs, e \in {Q(1, 64), Q(1, 16)}}
    \cup {<<Q(3, 4), s, TRUE, R(0)>> : s \in {R(0), R(1)}}

SeedLists == UNION {[1..n -> RefinedSeeds] : n \in 0..MaxSeeds}

\* the state of clip_spline_by_geomdl_trim when its seed loop has ended, for
\* any list of refined seeds; the curves that gave them are left open
InitSeeds ==
    /\ ctrlgrid = NotYet /\ patch_size = 0 /\ multi_surf = NotYet
    /\ spline_uv = NotYet /\ trim_curve = NotYet
    /\ refine_tol = DefaultTol
    /\ n_spline_samples = 0 /\ n_trim_samples = 0
    /\ pc = "seeds"
    /\ ts = NotYet /\ spine = NotYet /\ ss = NotYet /\ trim_pts = NotYet
    /\ seed_i = 0 /\ seed_j = 0
    /\ intersections \in SeedLists
    /\ clustered = <<>>
    /\ trim_variant = "object"
    /\ newton = NotYet
    /\ calls = <<>>
    /\ uv_eval = NotYet
    /\ segments = <<>>
    /\ t_vals = <<>>
    /\ pip_eval = <<>>
    /\ pair_eval = <<>>
    /\ deriv_eval = <<>>
    /\ map_eval = <<>>
    /\ samp_pts3d = NotYet
    /\ patch_eval = NotYet

NextSeeds == Cluster

SpecSeeds == InitSeeds /\ [][NextSeeds]_vars

ClusterDone == pc \in {"partition", "clipped", "done"}

\* C5: after clustering, no two distinct entries of the clustered list have
\* t-values that differ by less than 1e-6
C5_ClusterUniqueness ==
    ClusterDone =>
       \A i, j \in 1..Len(clustered) :
          i # j => ~LtInv(RAbs(RSub(clustered[i][1], clustered[j][1])), ClusterInv)

\* a representative was replaced by a later seed of lower residual and
\* larger t, and a further entry follows it
C5_Witness ==
    /\ pc = "partition"
    /\ Len(clustered) >= 2
    /\ \E k \in 1..(Len(intersections) - 1) :
          /\ RLt(intersections[k][1], intersections[k + 1][1])
          /\ LtInv(RSub(intersections[k + 1][1], intersections[k][1]), ClusterInv)
          /\ RLt(intersections[k + 1][4], intersections[k][4])
          /\ clustered[1] = intersections[k + 1]

\* C6: every seed whose refinement did not converge is still an entry of the
\* clustered list, with converged = false and its residual, also when its
\* refined t is within 1e-6 of another seed's
C6_NonConvergedRetained ==
    ClusterDone =>
       \A k \in 1..Len(intersections) :
          ~intersections[k][3] =>
             \E j \in 1..Len(clustered) : clustered[j] = intersections[k]

(* A polyline curve on its own: construction and direct evaluation *)

CurvePoints == {Pt8(0, 0), Pt8(4, 8), Pt8(8, 2), Pt8(-4, 5)}

\* GlobalUVSpline(uv_curve) for an (N, 2) array of control points
InitCurve ==
    /\ ctrlgrid = NotYet /\ patch_size = 0 /\ multi_surf = NotYet
    /\ spline_uv \in UNION {[1..n -> CurvePoints] : n \in 1..MaxCtrl}
    /\ trim_curve = NotYet
    /\ refine_tol = DefaultTol
    /\ n_spline_samples = 0 /\ n_trim_samples = 0
    /\ pc = "curve"
    /\ ts = NotYet /\ spine = NotYet /\ ss = NotYet /\ trim_pts = NotYet
    /\ seed_i = 0 /\ seed_j = 0
    /\ intersections = <<>>
    /\ clustered = <<>>
    /\ trim_variant = "object"
    /\ newton = NotYet
    /\ calls = <<>>
    /\ uv_eval = NotYet
    /\ segments = <<>>
    /\ t_vals = <<>>
    /\ pip_eval = <<>>
    /\ pair_eval = <<>>
    /\ deriv_eval = <<>>
    /\ map_eval = <<>>
    /\ samp_pts3d = NotYet
    /\ patch_eval = NotYet

\* the parameters tried on a curve of n control points: the control
\* parameters k/(n-1), the values half way between them, and one value on
\* either side of [0, 1]
CurveParams(n) ==
    IF n = 1 THEN {R(0), Q(1, 2), R(1)}
    ELSE {Q(k, 2 * (n - 1)) : k \in (-1)..(2 * n - 1)}

\* spline_uv.evaluate_uv(t) for a scalar t, and for the array [t, 0.0, 1.0]
EvalCurve ==
    /\ pc = "curve"
    /\ \E t \in CurveParams(Len(spline_uv)) :
          uv_eval' = [t |-> t,
                      scalar |-> evaluate_uv(spline_uv, t),
                      array |-> evaluate_uv_array(spline_uv, <<t, R(0), R(1)>>)]
    /\ pc' = "curve_evaluated"
    /\ UNCHANGED <<calls, newton, trim_variant, clustered, ctrlgrid,
                   patch_size, multi_surf, spline_uv, trim_curve,
                   n_spline_samples, n_trim_samples, refine_tol, ts, spine,
                   ss, trim_pts, seed_i, seed_j, intersections, segments, t_vals,
                   samp_pts3d, patch_eval,
                   pip_eval, pair_eval, deriv_eval, map_eval>>

NextCurve == EvalCurve

SpecCurve == InitCurve /\ [][NextCurve]_vars

\* (1 - w) * p + w * q
Lerp(p, q, w) ==
    <<RAdd(RMul(RSub(R(1), w), p[1]), RMul(w, q[1])),
      RAdd(RMul(RSub(R(1), w), p[2]), RMul(w, q[2]))>>

\* C11: a polyline of n >= 2 control points gives control point k at the
\* parameter k/(n-1) and the linear blend of the two neighbours in between;
\* with 2 control points the parameters 0, 1 and 1/2 give p0, p1 and their
\* midpoint; an array argument gives, entry by entry, what the scalar gives
C11_FallbackEquivalence ==
    (uv_eval # NotYet /\ Len(spline_uv) >= 2) =>
       LET n == Len(spline_uv)
           t == uv_eval.t
       IN  /\ \A k \in 0..(n - 1) :
                 t = Q(k, n - 1) => uv_eval.scalar = spline_uv[k + 1]
           /\ \A k \in 0..(n - 2) :
                 (RLe(Q(k, n - 1), t) /\ RLe(t, Q(k + 1, n - 1))) =>
                    uv_eval.scalar = Lerp(spline_uv[k + 1], spline_uv[k + 2],
                                          RSub(RMul(R(n - 1), t), R(k)))
           /\ (n = 2 /\ t = Q(1, 2)) =>
                 uv_eval.scalar = <<RMul(Q(1, 2), RAdd(spline_uv[1][1], spline_uv[2][1])),
                                    RMul(Q(1, 2), RAdd(spline_uv[1][2], spline_uv[2][2]))>>
           /\ uv_eval.array = <<uv_eval.scalar, spline_uv[1], spline_uv[n]>>

\* two distinct control points, evaluated half way
C11_Witness ==
    /\ uv_eval # NotYet
    /\ Len(spline_uv) = 2 /\ spline_uv[1] # spline_uv[2]
    /\ uv_eval.t = Q(1, 2)

(* The two variants of the trim curve *)

\* C12: a trim curve given as a raw list of control points is accepted: the
\* pipeline raises nothing on it
C12_RawTrimAccepted == trim_variant = "raw" => pc # "raised"

(* Repeated calls of clip_spline_by_geomdl_trim on one surface *)

CallGrid == <<2, 2, 2, 0>>

\* the arguments of a call: (UV curve, trim curve, n_spline_samples,
\* n_trim_samples)
CallArgs ==
    {<<c[1], c[2], n, 3>> :
        c \in {<<<<Pt8(0, 4), Pt8(8, 4)>>, SquareTrim>>, <<KinkCurve, HookTrim>>},
        n \in 1..MaxCallSamples}

InitCalls ==
    /\ ctrlgrid = ControlGrid(CallGrid[1], CallGrid[2], CallGrid[4])
    /\ patch_size = CallGrid[3]
    /\ multi_surf = NotYet
    /\ \E a \in CallArgs :
          /\ spline_uv = a[1] /\ trim_curve = a[2]
          /\ n_spline_samples = a[3] /\ n_trim_samples = a[4]
    /\ refine_tol = DefaultTol
    /\ pc = "new"
    /\ ts = NotYet /\ spine = NotYet /\ ss = NotYet /\ trim_pts = NotYet
    /\ seed_i = 0 /\ seed_j = 0
    /\ intersections = <<>>
    /\ clustered = <<>>
    /\ trim_variant = "object"
    /\ newton = NotYet
    /\ calls = <<>>
    /\ uv_eval = NotYet
    /\ segments = <<>>
    /\ t_vals = <<>>
    /\ pip_eval = <<>>
    /\ pair_eval = <<>>
    /\ deriv_eval = <<>>
    /\ map_eval = <<>>
    /\ samp_pts3d = NotYet
    /\ patch_eval = NotYet

\* a further call of clip_spline_by_geomdl_trim on the same multi_surf
\* (lines 163-165: the parameters are bound).  The frame's other variables
\* are left holding what the call before assigned: a call that read one of
\* them before assigning it would read that
Reinvoke ==
    /\ pc = "clipped"
    /\ Len(calls) < MaxCalls
    /\ \E a \in CallArgs :
          /\ spline_uv' = a[1] /\ trim_curve' = a[2]
          /\ n_spline_samples' = a[3] /\ n_trim_samples' = a[4]
    /\ pc' = "built"
    /\ UNCHANGED <<calls, newton, trim_variant, uv_eval, clustered, ctrlgrid,
                   patch_size, multi_surf, refine_tol, ts, spine, ss,
                   trim_pts, seed_i, seed_j, intersections, segments, t_vals,
                   samp_pts3d, patch_eval,
                   pip_eval, pair_eval, deriv_eval, map_eval>>

NextCalls == Construct \/ Sample \/ SeedStep \/ Cluster \/ Partition \/ Reinvoke

SpecCalls == InitCalls /\ [][NextCalls]_vars

\* C13: two calls with equal UV curve, trim curve and tunables (on the same
\* control grid) return equal segments and equal intersections, whatever
\* calls were made before or between them
C13_Determinism ==
    \A i, j \in 1..Len(calls) :
       calls[i].args = calls[j].args =>
          /\ calls[i].segments = calls[j].segments
          /\ calls[i].intersections = calls[j].intersections

\* two calls with equal arguments and a call with other arguments, which
\* returned other intersections, between them
C13_Witness ==
    /\ Len(calls) >= 3
    /\ calls[1].args = calls[3].args
    /\ calls[2].args # calls[1].args
    /\ calls[1].intersections # <<>>
    /\ calls[2].intersections # calls[1].intersections

(* Frame *)

\* C14: once multi_surf is constructed, no step changes the control grid,
\* the MultiBezierSurface object (its patch list and its (pi, pj) -> index
\* table) or the control points of either curve
C14_ReadOnlyAfterConstruction ==
    [][pc # "new" =>
         /\ ctrlgrid' = ctrlgrid
         /\ multi_surf' = multi_surf
         /\ spline_uv' = spline_uv
         /\ trim_curve' = trim_curve]_vars

\* the script has run through every stage, with seeds refined, segments
\* emitted and the curve mapped to 3D, on the objects as constructed
C14_Witness ==
    /\ pc = "done"
    /\ intersections # <<>> /\ segments # <<>> /\ samp_pts3d # NotYet
    /\ multi_surf = MultiBezierSurface(ctrlgrid, patch_size)

(* Newton refinement: its exits *)

\* a refinement was made for the last segment pair
Refined == newton # <<>>

\* C15: a refinement that meets a singular system returns the iterate (t, s)
\* at which it met it, with converged = false and the residual at that
\* iterate; the tuple is appended to the intersections and nothing is raised
C15_SingularJacobianSoft ==
    (Refined /\ newton[1][5] = "singular") =>
       LET run == newton[1]
       IN  /\ Det(derivative_uv(spline_uv, run[1]),
                  derivatives(trim_curve, run[2]))[1] = 0
           /\ run[3] = FALSE
           /\ run[4] = Residual2(spline_uv, trim_curve, run[1], run[2])
           /\ pc # "raised"
           /\ pc = "seeds" =>
                 /\ intersections # <<>>
                 /\ intersections[Len(intersections)] = SubSeq(run, 1, 4)

\* a singular system was met and the pipeline has gone on to return
C15_Witness ==
    /\ Refined /\ newton[1][5] = "singular"
    /\ pc = "clipped"
    /\ Len(calls) = 1

\* C20: a refinement returns after at most 25 iterations; one that runs into
\* the cap returns the residual at its final clamped (t, s) and
\* converged = (that residual < tol)
C20_NewtonTerminates ==
    Refined =>
       LET run == newton[1]
       IN  /\ run[6] <= MaxIter
           /\ run[5] = "cap" =>
                 /\ run[6] = MaxIter
                 /\ RLe(R(0), run[1]) /\ RLe(run[1], R(1))
                 /\ RLe(R(0), run[2]) /\ RLe(run[2], R(1))
                 /\ run[4] = Residual2(spline_uv, trim_curve, run[1], run[2])
                 /\ run[3] = NormLt(run[4], refine_tol)

\* a refinement has run into the cap
C20_Witness == Refined /\ newton[1][5] = "cap" /\ newton[1][6] = MaxIter

(* Order of the results *)

\* C16: the segments are returned in increasing-t order: each segment ends
\* where or before the next one begins, and every segment has t0 < t1
C16_SegmentsInOrder ==
    Clipped =>
       /\ \A k \in 1..(Len(segments) - 1) :
             RLe(segments[k].t1, segments[k + 1].t0)
       /\ \A k \in 1..Len(segments) : RLt(segments[k].t0, segments[k].t1)

\* two segments were returned
C16_Witness == Clipped /\ Len(segments) >= 2

\* C17: after sorting and clustering, the t-values of consecutive entries of
\* the intersections list are strictly increasing
C17_IntersectionsOrdered ==
    ClusterDone =>
       \A k \in 1..(Len(clustered) - 1) :
          RLt(clustered[k][1], clustered[k + 1][1])

\* several entries are left after a merge
C17_Witness ==
    /\ pc = "partition"
    /\ Len(clustered) >= 2
    /\ Len(intersections) > Len(clustered)

\* C18: for every refined seed that is absent from the clustered list, the
\* list has an entry whose t is within 1e-6 of the seed's t and whose
\* residual is less than or equal to the seed's
C18_ClusterKeepsBest ==
    ClusterDone =>
       \A k \in 1..Len(intersections) :
          (~\E j \in 1..Len(clustered) : clustered[j] = intersections[k]) =>
             \E j \in 1..Len(clustered) :
                /\ LtInv(RAbs(RSub(clustered[j][1], intersections[k][1])), ClusterInv)
                /\ RLe(clustered[j][4], intersections[k][4])

\* the lists that hold the seeds of `items` in another order
Reorderings(items) ==
    {[k \in 1..Len(items) |-> items[p[k]]] :
        p \in {q \in [1..Len(items) -> 1..Len(items)] :
                 \A a, b \in 1..Len(items) : a # b => q[a] # q[b]}}

\* C19 as stated: whatever the order in which the seeds were found, sorting
\* by t and clustering gives the same list, entry by entry in t, s,
\* converged and residual
C19_OrderIndependent ==
    pc = "partition" =>
       \A other \in Reorderings(intersections) :
          ClusterLoop(<<>>, SortByT(other)) = clustered

\* no two distinct seeds have both the same t and the same residual
NoTies ==
    \A a, b \in 1..Len(intersections) :
       (intersections[a][1] = intersections[b][1]
          /\ intersections[a][4] = intersections[b][4])
       => intersections[a] = intersections[b]

\* C19 (amended): whatever the order in which the seeds were found, sorting
\* by t and clustering gives a list of the same length with, entry by
\* entry, the same t and the same residual; s and converged are the same
\* too unless two distinct seeds tie in t and in residual
C19_OrderIndependentUpToTies ==
    pc = "partition" =>
       \A other \in Reorderings(intersections) :
          LET alt == ClusterLoop(<<>>, SortByT(other))
          IN  /\ Len(alt) = Len(clustered)
              /\ \A k \in 1..Len(alt) :
                    alt[k][1] = clustered[k][1] /\ alt[k][4] = clustered[k][4]
              /\ NoTies => alt = clustered

\* seeds at one t in several orders, with a merge, and no tie
C19_Witness ==
    /\ pc = "partition"
    /\ NoTies
    /\ Len(intersections) >= 3
    /\ Len(clustered) >= 2
    /\ \E a, b \in 1..Len(intersections) :
          /\ intersections[a][1] = intersections[b][1]
          /\ intersections[a] # intersections[b]

(* Ranges of the results *)

\* a number of the closed interval [0, 1]
InUnit(x) == ~IsNaN(x) /\ RLe(R(0), x) /\ RLe(x, R(1))

\* t in [0,1], s in [0,1] and a residual that is not negative
WellRanged(item) ==
    /\ InUnit(item[1])
    /\ InUnit(item[2])
    /\ ~IsNaN(item[4]) /\ RLe(R(0), item[4])

\* C21: every intersection produced by the pipeline has t in [0,1], s in
\* [0,1] and residual >= 0, on every return path of the refinement
\* (residual below tol, singular Jacobian, small step, iteration cap)
C21_IntersectionRanges ==
    /\ \A k \in 1..Len(intersections) : WellRanged(intersections[k])
    /\ \A k \in 1..Len(clustered) : WellRanged(clustered[k])
    /\ Refined => /\ WellRanged(newton[1])
                  /\ newton[1][5] \in {"residual", "singular", "step", "cap"}

\* a refinement whose Newton step was clamped: it took at least one step
\* and came back at an end of the trim or of the spline parameter
C21_Witness ==
    /\ Refined
    /\ newton[1][6] >= 1
    /\ newton[1][5] \in {"residual", "step"}
    /\ newton[1][1] \in {R(0), R(1)} \/ newton[1][2] \in {R(0), R(1)}
    /\ intersections # <<>>

(* The boundary set of the partition *)

\* C22: the boundary list T holds 0.0, 1.0 and the t of every clustered
\* intersection, all its values are in [0,1], it is strictly increasing,
\* starts at 0.0 and ends at 1.0; with no intersection it is (0.0, 1.0)
C22_BoundarySet ==
    Clipped =>
       /\ \E k \in 1..Len(t_vals) : t_vals[k] = R(0)
       /\ \E k \in 1..Len(t_vals) : t_vals[k] = R(1)
       /\ \A i \in 1..Len(clustered) :
             \E k \in 1..Len(t_vals) : t_vals[k] = clustered[i][1]
       /\ \A k \in 1..Len(t_vals) : InUnit(t_vals[k])
       /\ \A k \in 1..(Len(t_vals) - 1) : RLt(t_vals[k], t_vals[k + 1])
       /\ t_vals[1] = R(0) /\ t_vals[Len(t_vals)] = R(1)
       /\ clustered = <<>> => t_vals = <<R(0), R(1)>>

\* an intersection at an end of the curve and one inside it: the end value
\* is in T once
C22_Witness ==
    /\ Clipped
    /\ \E i, j \in 1..Len(clustered) :
          /\ clustered[i][1] \in {R(0), R(1)}
          /\ RLt(R(0), clustered[j][1]) /\ RLt(clustered[j][1], R(1))
    /\ Len(t_vals) = Len(clustered) + 1

(* Classification of the pairs of T *)

\* the pair (t_vals[k], t_vals[k+1]) is at least 1e-12 long
LongEnough(k) == ~LtInvSq(RSub(t_vals[k + 1], t_vals[k]), DegenerateInv)

\* the UV-curve point at the middle of the pair is inside the sampled trim
\* polygon
MidInside(k) ==
    point_in_polygon(
        evaluate_uv(spline_uv, RMul(Q(1, 2), RAdd(t_vals[k], t_vals[k + 1]))),
        trim_pts)

\* the segments emitted for the pair
SegmentsOfPair(k) ==
    {n \in 1..Len(segments) :
        segments[n].t0 = t_vals[k] /\ segments[n].t1 = t_vals[k + 1]}

----------------------------------------------------------------------------
(* point_in_polygon on its own: any small polyline and any point *)

\* the longest polyline handed to point_in_polygon
MaxPoly == 4

\* vertices: the corners of a square, its centre and a point level with
\* the centre
PolyPoints == {<<R(0), R(0)>>, <<R(2), R(0)>>, <<R(2), R(2)>>, <<R(0), R(2)>>,
               <<R(1), R(1)>>, <<R(3), R(1)>>}

\* query points: inside, outside, level with vertices, on edges
QueryPoints ==
    {<<Q(x, 2), Q(y, 2)>> : x \in {-2, 1, 2, 3}, y \in {0, 1, 2, 4}}

InitPip ==
    /\ ctrlgrid = NotYet /\ patch_size = 0 /\ multi_surf = NotYet
    /\ spline_uv = NotYet /\ trim_curve = NotYet
    /\ refine_tol = DefaultTol
    /\ n_spline_samples = 0 /\ n_trim_samples = 0
    /\ pc = "polygon"
    /\ ts = NotYet /\ spine = NotYet /\ ss = NotYet
    /\ trim_pts \in UNION {[1..n -> PolyPoints] : n \in 3..MaxPoly}
    /\ seed_i = 0 /\ seed_j = 0
    /\ intersections = <<>> /\ clustered = <<>>
    /\ trim_variant = "object"
    /\ newton = NotYet
    /\ calls = <<>>
    /\ uv_eval = NotYet
    /\ segments = <<>>
    /\ t_vals = <<>>
    /\ pip_eval = <<>>
    /\ pair_eval = <<>>
    /\ deriv_eval = <<>>
    /\ map_eval = <<>>
    /\ samp_pts3d = NotYet
    /\ patch_eval = NotYet

\* inside = point_in_polygon(pt, trim_pts[:, :2]) for some point
ApplyPip ==
    /\ pc = "polygon"
    /\ \E pt \in QueryPoints :
          pip_eval' = <<[pt |-> pt, inside |-> point_in_polygon(pt, trim_pts)]>>
    /\ pc' = "classified"
    /\ UNCHANGED <<ctrlgrid, patch_size, multi_surf, spline_uv, trim_curve,
                   n_spline_samples, n_trim_samples, refine_tol, ts, spine, ss,
                   trim_pts, seed_i, seed_j, intersections, clustered,
                   segments, samp_pts3d, patch_eval, trim_variant, newton,
                   calls, uv_eval, t_vals, pair_eval, deriv_eval, map_eval>>

NextPip == ApplyPip

SpecPip == InitPip /\ [][NextPip]_vars

\* the ends of the edge from poly[i] to poly[(i+1) % n] (i from 0)
EdgeEnds(poly, i) == <<poly[i + 1], poly[((i + 1) % Len(poly)) + 1]>>

\* the edge has both its ends at the same y
Horizontal(poly, i) == EdgeEnds(poly, i)[1][2] = EdgeEnds(poly, i)[2][2]

\* exactly one end of the edge is strictly above the point's y, and the
\* edge's x at that y is strictly to the right of the point's x
CountedEdge(pt, poly, i) ==
    LET p0 == EdgeEnds(poly, i)[1]
        p1 == EdgeEnds(poly, i)[2]
        dy == RSub(p1[2], p0[2])
        lhs == RMul(RSub(pt[1], p0[1]), dy)
        rhs == RMul(RSub(p1[1], p0[1]), RSub(pt[2], p0[2]))
    IN  /\ RLt(pt[2], p0[2]) # RLt(pt[2], p1[2])
        /\ IF RLt(R(0), dy) THEN RLt(lhs, rhs) ELSE RLt(rhs, lhs)

\* C24: point_in_polygon returns the parity of the number of polygon edges
\* that have exactly one endpoint strictly above the point's y and whose
\* x-intercept at that y is strictly to the right of the point's x; a
\* horizontal edge never toggles the result
C24_RayParity ==
    pc = "classified" =>
       LET pt == pip_eval[1].pt
           counted == {i \in 0..(Len(trim_pts) - 1) : CountedEdge(pt, trim_pts, i)}
       IN  /\ pip_eval[1].inside = (Cardinality(counted) % 2 = 1)
           /\ \A i \in 0..(Len(trim_pts) - 1) :
                 Horizontal(trim_pts, i) =>
                    (i \notin counted /\ ~EdgeToggles(pt, trim_pts, i))

\* a point found inside a polygon that has a horizontal edge at the point's
\* own y and an edge ending level with the point
C24_Witness ==
    /\ pc = "classified"
    /\ pip_eval[1].inside
    /\ \E i \in 0..(Len(trim_pts) - 1) :
          /\ Horizontal(trim_pts, i)
          /\ EdgeEnds(trim_pts, i)[1] # EdgeEnds(trim_pts, i)[2]
          /\ EdgeEnds(trim_pts, i)[1][2] = pip_eval[1].pt[2]
    /\ \E i \in 0..(Len(trim_pts) - 1) :
          /\ ~Horizontal(trim_pts, i)
          /\ EdgeEnds(trim_pts, i)[1][2] = pip_eval[1].pt[2]

----------------------------------------------------------------------------
(* The seed of one pair of sample segments: any two small segments *)

\* the segments' ends have coordinates 0..PairGrid in grid units
PairGrid == 2

\* the grid units: an eighth, and 5e-7
PairUnits == {Q(1, 8), Q(1, 2000000)}

\* the sample parameters ts[i], ts[i+1] and ss[j], ss[j+1] of the two
\* segments
PairParams ==
    {<<<<R(0), R(1)>>, <<Q(1, 4), Q(1, 2)>>>>,
     <<<<Q(1, 4), Q(1, 2)>>, <<R(0), R(1)>>>>}

PairPoints(unit) ==
    {<<RMul(R(x), unit), RMul(R(y), unit)>> : x \in 0..PairGrid, y \in 0..PairGrid}

\* the state of the seed loop at one pair: spine[i], spine[i+1] and
\* trim_pts[j], trim_pts[j+1] with their sample parameters
InitPairs ==
    /\ ctrlgrid = NotYet /\ patch_size = 0 /\ multi_surf = NotYet
    /\ spline_uv = NotYet /\ trim_curve = NotYet
    /\ refine_tol = DefaultTol
    /\ n_spline_samples = 1 /\ n_trim_samples = 1
    /\ pc = "pair"
    /\ \E pp \in PairParams : ts = pp[1] /\ ss = pp[2]
    /\ \E unit \in PairUnits :
          /\ spine \in [1..2 -> PairPoints(unit)]
          /\ trim_pts \in [1..2 -> PairPoints(unit)]
    /\ seed_i = 0 /\ seed_j = 0
    /\ intersections = <<>> /\ clustered = <<>>
    /\ trim_variant = "object"
    /\ newton = NotYet
    /\ calls = <<>>
    /\ uv_eval = NotYet
    /\ segments = <<>>
    /\ t_vals = <<>>
    /\ pip_eval = <<>>
    /\ pair_eval = <<>>
    /\ deriv_eval = <<>>
    /\ map_eval = <<>>
    /\ samp_pts3d = NotYet
    /\ patch_eval = NotYet

\* lines 173-177 for the pair: the segment test and the seed it gives
SeedPair ==
    /\ pc = "pair"
    /\ pair_eval' = <<[seed |-> SeedInit(seed_i, seed_j)]>>
    /\ pc' = "paired"
    /\ UNCHANGED <<ctrlgrid, patch_size, multi_surf, spline_uv, trim_curve,
                   n_spline_samples, n_trim_samples, refine_tol, ts, spine, ss,
                   trim_pts, seed_i, seed_j, intersections, clustered,
                   segments, samp_pts3d, patch_eval, trim_variant, newton,
                   calls, uv_eval, t_vals, pip_eval, deriv_eval, map_eval, map_eval>>

NextPairs == SeedPair

SpecPairs == InitPairs /\ [][NextPairs]_vars

\* the pair's vectors r, s and q - p in units of a millionth when all
\* three are short, as they are otherwise
PairVectors ==
    LET r == PSub(spine[2], spine[1])
        s == PSub(trim_pts[2], trim_pts[1])
        d == PSub(trim_pts[1], spine[1])
        k == IF Short(r) /\ Short(s) /\ Short(d) THEN 1000000 ELSE 1
    IN  [r |-> Scaled(r, k), s |-> Scaled(s, k), d |-> Scaled(d, k)]

\* the cross product a x b
Wedge(a, b) == RSub(RMul(a[1], b[2]), RMul(a[2], b[1]))

\* the segments are not parallel
NotParallel == Wedge(PairVectors.r, PairVectors.s) # R(0)

\* x / w is in the closed interval [0, 1], for w # 0
RatioInUnit(x, w) ==
    IF RLt(R(0), w) THEN RLe(R(0), x) /\ RLe(x, w)
    ELSE RLe(x, R(0)) /\ RLe(w, x)

\* both local parameters t and u lie in [0, 1]
LocalInRange ==
    LET w == Wedge(PairVectors.r, PairVectors.s)
    IN  /\ RatioInUnit(Wedge(PairVectors.d, PairVectors.s), w)
        /\ RatioInUnit(Wedge(PairVectors.d, PairVectors.r), w)

\* C25: a seed is produced for a pair of sample segments if and only if
\* the segments are not parallel (r x s != 0) and both local parameters t
\* and u lie in [0,1]; the seed's (t_init, s_init) then lies in
\* [ts[i], ts[i+1]] x [ss[j], ss[j+1]]; parallel pairs produce no seed
C25_SeedIffCrossing ==
    pc = "paired" =>
       LET seed == pair_eval[1].seed
       IN  /\ seed # NoHit <=> (NotParallel /\ LocalInRange)
           /\ seed # NoHit =>
                 /\ RLe(ts[1], seed[1]) /\ RLe(seed[1], ts[2])
                 /\ RLe(ss[1], seed[2]) /\ RLe(seed[2], ss[2])
           /\ ~NotParallel => seed = NoHit

----------------------------------------------------------------------------
(* derivative3D on its own: a curve on a constructed surface, any t *)

\* t runs over the multiples of 1 / DerivDen in [0, 1]
DerivDen == 4

\* and over two parameters less than h from an end of [0, 1]
DerivParams ==
    {Q(k, DerivDen) : k \in 0..DerivDen}
    \cup {Q(1, 2 * HInv3D), Q(2 * HInv3D - 1, 2 * HInv3D)}

\* UV curves along a patch edge direction of a 2 x 2 patch grid
DerivCurves ==
    {<<Pt8(0, 0), Pt8(8, 0)>>, <<Pt8(4, 0), Pt8(12, 0)>>,
     <<Pt8(0, 8), Pt8(8, 8), Pt8(12, 8)>>, <<Pt8(0, 0), Pt8(0, 8)>>,
     <<Pt8(8, 4), Pt8(8, 12)>>, <<Pt8(4, 8)>>,
     <<Pt8(2, 8), Pt8(14, 8)>>, <<Pt8(0, 0), Pt8(4, 0), Pt8(12, 0)>>}

InitDeriv ==
    /\ \E kind \in {0, 1} : ctrlgrid = ControlGrid(3, 3, kind)
    /\ patch_size = 2
    /\ multi_surf = MultiBezierSurface(ctrlgrid, patch_size)
    /\ spline_uv \in DerivCurves
    /\ trim_curve = NotYet
    /\ refine_tol = DefaultTol
    /\ n_spline_samples = 0 /\ n_trim_samples = 0
    /\ pc = "built"
    /\ ts = NotYet /\ spine = NotYet /\ ss = NotYet /\ trim_pts = NotYet
    /\ seed_i = 0 /\ seed_j = 0
    /\ intersections = <<>> /\ clustered = <<>>
    /\ trim_variant = "object"
    /\ newton = NotYet
    /\ calls = <<>>
    /\ uv_eval = NotYet
    /\ segments = <<>>
    /\ t_vals = <<>>
    /\ pip_eval = <<>>
    /\ pair_eval = <<>>
    /\ deriv_eval = <<>>
    /\ map_eval = <<>>
    /\ samp_pts3d = NotYet
    /\ patch_eval = NotYet

\* spline_uv.derivative3D(t, multi_surf) for some t
EvalDerivative ==
    /\ pc = "built"
    /\ \E t \in DerivParams :
          deriv_eval' = <<[t |-> t, run |-> derivative3D_run(spline_uv, multi_surf, t),
                           d3D |-> derivative3D(spline_uv, multi_surf, t)]>>
    /\ pc' = "derived"
    /\ UNCHANGED <<ctrlgrid, patch_size, multi_surf, spline_uv, trim_curve,
                   n_spline_samples, n_trim_samples, refine_tol, ts, spine, ss,
                   trim_pts, seed_i, seed_j, intersections, clustered,
                   segments, samp_pts3d, patch_eval, trim_variant, newton,
                   calls, uv_eval, t_vals, pip_eval, pair_eval, map_eval>>

NextDeriv == EvalDerivative

SpecDeriv == InitDeriv /\ [][NextDeriv]_vars

\* C26: derivative3D(t) is the central finite difference of evaluate3D with
\* h = 1e-6, (evaluate3D(t+h) - evaluate3D(t-h)) / (2h), for every t in
\* [0,1] including t = 0 and t = 1, and its divisor equals the distance
\* between the two parameter values actually evaluated
C26_CentralDifference ==
    pc = "derived" =>
       LET t == deriv_eval[1].t
           run == deriv_eval[1].run
           h == Q(1, HInv3D)
           hi == evaluate3D(spline_uv, multi_surf, RAdd(t, h))
           lo == evaluate3D(spline_uv, multi_surf, RSub(t, h))
       IN  /\ \A k \in 1..3 :
                 deriv_eval[1].d3D[k] = RDiv(RSub(hi[k], lo[k]), RMul(R(2), h))
           /\ run.divisor = RSub(run.t1, run.t0)

(* The patch grid *)

\* the control rows (columns) owned by the patch at patch row (column) c
OwnedLines(c) == {c * Step + a : a \in 0..(patch_size - 1)}

\* the index of the patch stored with coordinate (pi, pj)
PatchAt(pi, pj) ==
    CHOOSE k \in DOMAIN multi_surf.patches :
       multi_surf.patches[k].coord = <<pi, pj>>

\* C27: for a valid grid the patch grid holds exactly px * py patches with
\* px = (nx-1)/step and py = (ny-1)/step; patch (pi, pj) owns control rows
\* pi*step .. pi*step+p-1 and columns pj*step .. pj*step+p-1, so a patch and
\* its next neighbour share exactly one control row or column; every
\* control point belongs to a patch; patch_from_coord(pi, pj) is the index
\* of the patch stored with coordinate (pi, pj)
C27_PatchGrid ==
    (Constructed /\ EvenlyDivisible) =>
       LET px == (Rows(ctrlgrid) - 1) \div Step
           py == (Cols(ctrlgrid) - 1) \div Step
           patches == multi_surf.patches
       IN  /\ multi_surf.px = px /\ multi_surf.py = py
           /\ Cardinality(DOMAIN patches) = px * py
           /\ \A pi \in 0..(px - 1), pj \in 0..(py - 1) :
                 /\ Cardinality({k \in DOMAIN patches :
                                    patches[k].coord = <<pi, pj>>}) = 1
                 /\ patch_from_coord(multi_surf, pi, pj) = PatchAt(pi, pj)
                 /\ LET ctrl == patches[PatchAt(pi, pj)].ctrl
                    IN  /\ DOMAIN ctrl = 0..(patch_size - 1)
                        /\ \A a \in 0..(patch_size - 1) :
                              /\ DOMAIN ctrl[a] = 0..(patch_size - 1)
                              /\ \A b \in 0..(patch_size - 1) :
                                    ctrl[a][b] =
                                       ctrlgrid[pi * Step + a][pj * Step + b]
                 /\ pi + 1 < px =>
                       /\ Cardinality(OwnedLines(pi) \cap OwnedLines(pi + 1)) = 1
                       /\ patches[PatchAt(pi, pj)].ctrl[patch_size - 1] =
                             patches[PatchAt(pi + 1, pj)].ctrl[0]
                 /\ pj + 1 < py =>
                       /\ Cardinality(OwnedLines(pj) \cap OwnedLines(pj + 1)) = 1
                       /\ \A a \in 0..(patch_size - 1) :
                             patches[PatchAt(pi, pj)].ctrl[a][patch_size - 1] =
                                patches[PatchAt(pi, pj + 1)].ctrl[a][0]
           /\ \A a \in DOMAIN ctrlgrid, b \in DOMAIN ctrlgrid[0] :
                 \E pi \in 0..(px - 1), pj \in 0..(py - 1) :
                    a \in OwnedLines(pi) /\ b \in OwnedLines(pj)
           /\ \A k \in DOMAIN patches :
                 patches[k].coord[1] \in 0..(px - 1)
                    /\ patches[k].coord[2] \in 0..(py - 1)

\* a valid grid cut into two rows and two columns of 3 x 3 patches
C27_Witness ==
    /\ Constructed /\ EvenlyDivisible
    /\ patch_size = 3
    /\ multi_surf.px = 2 /\ multi_surf.py = 2
    /\ \E a \in DOMAIN ctrlgrid, b \in DOMAIN ctrlgrid[0] : ctrlgrid[a][b][3] # R(0)

----------------------------------------------------------------------------
(* evaluate3D on its own: any UV point over any constructed surface *)

\* UV coordinates: the multiples of 1/2 from -1/2 to past the largest px
MapCoords == {Q(k, 2) : k \in -1..(2 * MaxDim - 1)}

\* the surface is constructed and the UV curve is one control point, which
\* evaluate_uv returns for every t
InitMap ==
    /\ \E nx \in 2..MaxDim, ny \in 2..MaxDim : ctrlgrid = ControlGrid(nx, ny, 1)
    /\ patch_size \in 2..MaxPatch
    /\ multi_surf = MultiBezierSurface(ctrlgrid, patch_size)
    /\ \E U \in MapCoords, V \in MapCoords : spline_uv = <<<<U, V>>>>
    /\ trim_curve = NotYet
    /\ refine_tol = DefaultTol
    /\ n_spline_samples = 0 /\ n_trim_samples = 0
    /\ pc = "built"
    /\ ts = NotYet /\ spine = NotYet /\ ss = NotYet /\ trim_pts = NotYet
    /\ seed_i = 0 /\ seed_j = 0
    /\ intersections = <<>> /\ clustered = <<>>
    /\ trim_variant = "object"
    /\ newton = NotYet
    /\ calls = <<>>
    /\ uv_eval = NotYet
    /\ segments = <<>>
    /\ t_vals = <<>>
    /\ pip_eval = <<>>
    /\ pair_eval = <<>>
    /\ deriv_eval = <<>>
    /\ map_eval = <<>>
    /\ samp_pts3d = NotYet
    /\ patch_eval = NotYet

\* spline_uv.evaluate3D(t, multi_surf) for a scalar t
Evaluate3D ==
    /\ pc = "built"
    /\ \E t \in {R(0), Q(1, 2), R(1)} :
          map_eval' = <<[t |-> t, uv |-> evaluate_uv(spline_uv, t),
                         run |-> MapUV_run(multi_surf, evaluate_uv(spline_uv, t)),
                         pt |-> evaluate3D(spline_uv, multi_surf, t)]>>
    /\ pc' = "mapped3d"
    /\ UNCHANGED <<ctrlgrid, patch_size, multi_surf, spline_uv, trim_curve,
                   n_spline_samples, n_trim_samples, refine_tol, ts, spine, ss,
                   trim_pts, seed_i, seed_j, intersections, clustered,
                   segments, samp_pts3d, patch_eval, trim_variant, newton,
                   calls, uv_eval, t_vals, pip_eval, pair_eval, deriv_eval>>

NextMap == Evaluate3D

SpecMap == InitMap /\ [][NextMap]_vars

\* the UV point is in the half-open domain [0, px) x [0, py)
InDomain(uv) ==
    /\ RLe(R(0), uv[1]) /\ RLt(uv[1], R(multi_surf.px))
    /\ RLe(R(0), uv[2]) /\ RLt(uv[2], R(multi_surf.py))

\* x is in the half-open interval [0, 1)
InHalfOpenUnit(x) == RLe(R(0), x) /\ RLt(x, R(1))

\* C28: evaluate3D returns a non-NaN point if and only if 0 <= U < px and
\* 0 <= V < py; a UV point on the upper boundary gets the NaN sentinel, an
\* integer U or V on a patch seam is evaluated on the higher-indexed patch
\* at local coordinate 0, and the local coordinates passed to the patch
\* lie in [0,1)
C28_HalfOpenDomain ==
    pc = "mapped3d" =>
       LET uv == map_eval[1].uv
           run == map_eval[1].run
           pt == map_eval[1].pt
       IN  /\ ~HasNaN(pt) <=> InDomain(uv)
           /\ ~InDomain(uv) => pt = NaNPoint
           /\ InDomain(uv) =>
                 /\ run.pidx # None
                 /\ multi_surf.patches[run.pidx].coord = <<run.pi, run.pj>>
                 /\ InHalfOpenUnit(run.u_local) /\ InHalfOpenUnit(run.v_local)
                 /\ RAdd(R(run.pi), run.u_local) = uv[1]
                 /\ RAdd(R(run.pj), run.v_local) = uv[2]
                 /\ pt = eval_patch(multi_surf, run.pidx, run.u_local, run.v_local)
                 /\ uv[1][2] = 1 => (run.pi = uv[1][1] /\ run.u_local = R(0))
                 /\ uv[2][2] = 1 => (run.pj = uv[2][1] /\ run.v_local = R(0))

\* a UV point on an interior seam, evaluated on the higher patch
C28_Witness ==
    /\ pc = "mapped3d"
    /\ InDomain(map_eval[1].uv)
    /\ map_eval[1].uv[1][2] = 1 /\ map_eval[1].uv[1][1] >= 1
    /\ map_eval[1].run.pi = map_eval[1].uv[1][1]
    /\ map_eval[1].run.u_local = R(0)
    /\ ~HasNaN(map_eval[1].pt)

(* Intersections that did not converge *)

\* C29: the t of every clustered intersection is a partition boundary
\* whatever its converged flag: T is 0, 1 and the t of all of them, the
\* returned list keeps the ones that did not converge, and each pair of
\* consecutive boundaries is classified on its own
C29_NonConvergedBoundaries ==
    Clipped =>
       /\ intersections = clustered
       /\ {t_vals[k] : k \in 1..Len(t_vals)} =
             {R(0), R(1)} \cup {clustered[i][1] : i \in 1..Len(clustered)}
       /\ \A n \in 1..Len(segments) :
             ~\E i \in 1..Len(clustered) :
                /\ RLt(segments[n].t0, clustered[i][1])
                /\ RLt(clustered[i][1], segments[n].t1)

\* an intersection that did not converge, inside (0, 1), at which a
\* returned segment ends
C29_Witness ==
    /\ Clipped
    /\ \E i \in 1..Len(intersections) :
          /\ ~intersections[i][3]
          /\ RLt(R(0), intersections[i][1]) /\ RLt(intersections[i][1], R(1))
          /\ \E n \in 1..Len(segments) :
                \/ segments[n].t0 = intersections[i][1]
                \/ segments[n].t1 = intersections[i][1]


----------------------------------------------------------------------------
(* The closing edge of the trim polygon *)

\* the polyline ends where it starts
ClosedPolyline(poly) == poly[Len(poly)] = poly[1]

\* an odd number of the edges between consecutive points is counted
OpenParity(pt, poly) ==
    Cardinality({i \in 0..(Len(poly) - 2) : CountedEdge(pt, poly, i)}) % 2 = 1

\* C30: point_in_polygon counts the edge from the last point of the polyline
\* to the first with the edges between consecutive points, so that an open
\* polyline is closed by a straight edge; when the last point equals the
\* first, the closing edge has no length, never toggles the result, and the
\* result is that of the polyline without its last point
C30_ClosingEdge ==
    pc = "classified" =>
       LET pt == pip_eval[1].pt
           n  == Len(trim_pts)
           closing == CountedEdge(pt, trim_pts, n - 1)
       IN  /\ EdgeEnds(trim_pts, n - 1) = <<trim_pts[n], trim_pts[1]>>
           /\ EdgeToggles(pt, trim_pts, n - 1) = closing
           /\ pip_eval[1].inside = (OpenParity(pt, trim_pts) # closing)
           /\ ClosedPolyline(trim_pts) =>
                 /\ ~closing
                 /\ pip_eval[1].inside = OpenParity(pt, trim_pts)
                 /\ pip_eval[1].inside =
                       point_in_polygon(pt, SubSeq(trim_pts, 1, n - 1))

\* a point found inside an open polyline only through its closing edge
C30_Witness ==
    /\ pc = "classified"
    /\ ~ClosedPolyline(trim_pts)
    /\ pip_eval[1].inside
    /\ ~OpenParity(pip_eval[1].pt, trim_pts)
    /\ CountedEdge(pip_eval[1].pt, trim_pts, Len(trim_pts) - 1)

=============================================================================
